---------------------------- MODULE Spec2Model ----------------------------
(***************************************************************************)
(* A model of the sudoku tunnel's connection stack:                        *)
(*   - pkg/obfs/sudoku/conn.go: the puzzle codec (legacy and boost mode),  *)
(*   - apis ServerHandshake and httpmask.ConsumeHeader,                    *)
(*   - internal/tunnel/control_conn.go: the control multiplexer.           *)
(* Each subsystem has a specification of its own over the shared           *)
(* variables: SpecCodec, SpecBoost, SpecHandshake, SpecControl.            *)
(***************************************************************************)
EXTENDS Integers, Sequences, FiniteSets, TLC

(***************************************************************************)
(* Bounds of the model.                                                    *)
(***************************************************************************)
\* plaintext bytes one codec connection carries
MaxPayload == 2
\* plaintext bytes handed to one Write call
MaxWriteLen == 2
\* seeds of the connection's rng that are explored
NumSeeds == 4
\* raw bytes the transport holds in flight (a full transport blocks Write)
WireCap == 20
\* length of the caller's buffer given to Read
MaxBuf == 2
\* plaintext bytes one boost connection carries
MaxBoostPayload == 3

(***************************************************************************)
(* Bytes.                                                                  *)
(***************************************************************************)
Min(a, b) == IF a < b THEN a ELSE b

RECURSIVE BitAnd(_, _)
\* a & b on non-negative integers
BitAnd(a, b) ==
  IF a = 0 \/ b = 0 THEN 0
  ELSE ((a % 2) * (b % 2)) + 2 * BitAnd(a \div 2, b \div 2)

RECURSIVE BitXor(_, _)
\* a ^ b on non-negative integers
BitXor(a, b) ==
  IF a = 0 THEN b
  ELSE IF b = 0 THEN a
  ELSE ((a + b) % 2) + 2 * BitXor(a \div 2, b \div 2)

\* a | b on non-negative integers
BitOr(a, b) == a + b - BitAnd(a, b)

RECURSIVE Pow2(_)
Pow2(n) == IF n = 0 THEN 1 ELSE 2 * Pow2(n - 1)

\* a << n and a >> n; the accumulators of the model stay far below 2^64
Shl(a, n) == a * Pow2(n)
Shr(a, n) == a \div Pow2(n)

\* the first n elements of s, and s without them
Take(s, n) == SubSeq(s, 1, n)
Drop(s, n) == SubSeq(s, n + 1, Len(s))

IsPrefix(s, t) == Len(s) <= Len(t) /\ Take(t, Len(s)) = s

(***************************************************************************)
(* The puzzle table (sudoku.Table).  Its construction is not part of the  *)
(* sources at hand; it is modelled from the data model of the design:      *)
(* encode[b] is a list of 4-byte codewords, decode maps the canonical      *)
(* (sorted) 4-tuple back to b, and the classifier invariant separates      *)
(* codeword bytes from padding bytes in each mode.                         *)
(***************************************************************************)
\* plaintext bytes: the tables encode every byte
TableBytes == 0..255

\* A hint names a cell of the grid and the value in it.  The hint at cell k
\* (0..3) of codeword alt of byte b carries two bits of b.
\* ASCII mode: every hint has bit 6 set (0x40..0x7F).
HintASCII(b, alt, k) == 64 + 16 * k + 4 * alt + (Shr(b, 2 * k) % 4)

\* entropy mode: every hint has bits 7 and 4 clear
HintEntropy(b, alt, k) == 32 * k + 4 * alt + (Shr(b, 2 * k) % 4)

\* the codeword alt of byte b, cells in the order 2, 0, 3, 1
Codeword(isASCII, b, alt) ==
  IF isASCII
  THEN <<HintASCII(b, alt, 2), HintASCII(b, alt, 0),
         HintASCII(b, alt, 3), HintASCII(b, alt, 1)>>
  ELSE <<HintEntropy(b, alt, 2), HintEntropy(b, alt, 0),
         HintEntropy(b, alt, 3), HintEntropy(b, alt, 1)>>

\* encode[b]: two codewords for an even byte, one for an odd byte
EncodeTable(isASCII, b) ==
  IF b % 2 = 0
  THEN <<Codeword(isASCII, b, 0), Codeword(isASCII, b, 1)>>
  ELSE <<Codeword(isASCII, b, 0)>>

\* ASCII padding has bit 6 clear; entropy padding has bit 7 or bit 4 set
PaddingPool(isASCII) == IF isASCII THEN <<32, 63>> ELSE <<128, 23>>

RECURSIVE InsertSorted(_, _)
InsertSorted(x, s) ==
  IF s = <<>> THEN <<x>>
  ELSE IF x <= Head(s) THEN <<x>> \o s
  ELSE <<Head(s)>> \o InsertSorted(x, Tail(s))

\* the canonical key of four hints: the hints sorted
packHintsToKey(h) ==
  InsertSorted(h[1], InsertSorted(h[2], InsertSorted(h[3], <<h[4]>>)))

\* the cell a hint names, and the two bits it carries, shifted to their
\* place in the byte
HintBits(isASCII, h) ==
  LET k == IF isASCII THEN ((h - 64) \div 16) % 4 ELSE (h \div 32) % 4
  IN Shl(h % 4, 2 * k)

\* decode[key]: ok tells that the key is the canonical form of a codeword
\* of encode, val is then the byte b with that codeword in encode[b].  The
\* byte is looked up by the bits the hints carry.
DecodeMap(isASCII, key) ==
  LET b == HintBits(isASCII, key[1]) + HintBits(isASCII, key[2])
             + HintBits(isASCII, key[3]) + HintBits(isASCII, key[4])
  IN IF /\ b \in TableBytes
        /\ \E i \in 1..Len(EncodeTable(isASCII, b)) :
             packHintsToKey(EncodeTable(isASCII, b)[i]) = key
     THEN [ok |-> TRUE, val |-> b]
     ELSE [ok |-> FALSE, val |-> 0]

(***************************************************************************)
(* sudoku.Conn.  A connection is a record of the fields of the struct; the *)
(* methods are operators from a connection (and the method's inputs) to    *)
(* the connection after the call and the call's outputs.                   *)
(***************************************************************************)
\* math/rand seeded in NewConn: every later draw is a function of the
\* seed.  The generator is a linear congruential one; rng is its state.
RngNext(x) == (x * 75 + 74) % 65537

\* rng.Intn(n) on the state after the draw
Intn(x, n) == x % n

\* rng.Float32() < rate on the state after the draw, rate in percent
CoinUp(x, rate) == (x % 100) < rate

\* a cipher.Stream that was not created (nil)
NoStream == [on |-> FALSE, key |-> 0, iv |-> 0, pos |-> 0]

\* cipher.NewCTR(block, iv): the stream is at its first keystream byte
NewCTR(key, iv) == [on |-> TRUE, key |-> key, iv |-> iv, pos |-> 0]

\* The keystream byte of AES-CTR under (key, iv) at position pos.  The block
\* cipher is the library's; all that matters here is that the keystream is
\* a function of key, iv and position.
KeyStream(key, iv, pos) == (key * 7 + iv * 13 + pos * 113 + 29) % 256

\* NewConn(c, table, pMin, pMax, record): rate is the padding rate in percent
NewConn(isASCII, rate, seed, record) ==
  [ isASCII     |-> isASCII,
    recorder    |-> <<>>,
    recorderNil |-> ~record,
    recording   |-> record,
    reader      |-> <<>>,
    pendingData |-> <<>>,
    hintBuf     |-> <<>>,
    rng         |-> RngNext(1000 + 37 * seed),
    paddingRate |-> rate,
    boostWrite  |-> FALSE,
    boostRead   |-> FALSE,
    boostASCII  |-> FALSE,
    boostEnc    |-> NoStream,
    boostDec    |-> NoStream,
    encBitBuf   |-> 0,
    encBits     |-> 0,
    decBitBuf   |-> 0,
    decBits     |-> 0 ]

\* a coin that appends its padding byte twice
PadCoinTwice(w, isASCII, rate) ==
  LET x == RngNext(w.rng)
      pads == PaddingPool(isASCII)
  IN IF CoinUp(x, rate)
     THEN LET y == RngNext(x)
              pad == pads[Intn(y, Len(pads)) + 1]
          IN [rng |-> y, out |-> w.out \o <<pad, pad>>]
     ELSE [rng |-> x, out |-> w.out]

\* A write in progress: w.rng is the generator, w.out the bytes appended.
\* One padding coin: if it comes up, a byte of the pool is appended.
PadCoin(w, isASCII, rate) ==
  LET x == RngNext(w.rng)
      pads == PaddingPool(isASCII)
  IN IF CoinUp(x, rate)
     THEN LET y == RngNext(x)
          IN [rng |-> y, out |-> Append(w.out, pads[Intn(y, Len(pads)) + 1])]
     ELSE [rng |-> x, out |-> w.out]

\* perm with the elements at (1-based) positions i and j exchanged
Swap(perm, i, j) == [perm EXCEPT ![i] = perm[j], ![j] = perm[i]]

\* rng.Shuffle(4, swap) on perm = 0,1,2,3 (here 1..4): for i = 3, 2, 1 one
\* draw j = Intn(i + 1) and a swap of i and j
Shuffle(x) ==
  LET x3 == RngNext(x)
      x2 == RngNext(x3)
      x1 == RngNext(x2)
      p3 == Swap(<<1, 2, 3, 4>>, 4, Intn(x3, 4) + 1)
      p2 == Swap(p3, 3, Intn(x2, 3) + 1)
      p1 == Swap(p2, 2, Intn(x1, 2) + 1)
  IN [rng |-> x1, perm |-> p1]

\* a padding coin, then the hint puzzle[idx]
PadThenHint(w, isASCII, rate, hint) ==
  LET c == PadCoin(w, isASCII, rate)
  IN [c EXCEPT !.out = Append(@, hint)]

\* The body of the loop of Write for one plaintext byte b.
WriteByte(w, isASCII, rate, b) ==
  LET c0 == PadCoin(w, isASCII, rate)
      puzzles == EncodeTable(isASCII, b)
      xc == RngNext(c0.rng)
      puzzle == puzzles[Intn(xc, Len(puzzles)) + 1]
      sh == Shuffle(xc)
      h1 == PadThenHint([rng |-> sh.rng, out |-> c0.out], isASCII, rate,
                        puzzle[sh.perm[1]])
      h2 == PadThenHint(h1, isASCII, rate, puzzle[sh.perm[2]])
      h3 == PadThenHint(h2, isASCII, rate, puzzle[sh.perm[3]])
  IN PadThenHint(h3, isASCII, rate, puzzle[sh.perm[4]])

RECURSIVE WriteBytes(_, _, _, _, _)
\* The loop of Write from byte i of p on.  (The test on the output has the
\* bytes of p[i] computed before p[i+1] is taken up; it always holds.)
WriteBytes(w, isASCII, rate, p, i) ==
  IF i > Len(p) THEN w
  ELSE LET nw == WriteByte(w, isASCII, rate, p[i])
       IN IF Len(nw.out) >= Len(w.out) + 4
          THEN WriteBytes(nw, isASCII, rate, p, i + 1)
          ELSE nw

\* Conn.Write in legacy mode: the connection after the call and the bytes
\* handed to the transport.
WriteLegacy(sc, p) ==
  LET w == PadCoin(WriteBytes([rng |-> sc.rng, out |-> <<>>],
                              sc.isASCII, sc.paddingRate, p, 1),
                   sc.isASCII, sc.paddingRate)
  IN [sc |-> [sc EXCEPT !.rng = w.rng], out |-> w.out]

\* (mutant) the classifier tests the wrong bit
IsPaddingWrongBit(isASCII, b) ==
  IF isASCII THEN BitAnd(b, 32) = 0 ELSE BitAnd(b, 160) # 0

\* the classifier of the read path
IsPadding(isASCII, b) ==
  IF isASCII THEN BitAnd(b, 64) = 0 ELSE BitAnd(b, 144) # 0

\* (mutant) the bytes that do not fit into the caller's buffer are dropped
CopyOutDropsRest(sc, plen) ==
  LET n == Min(plen, Len(sc.pendingData))
  IN [ sc   |-> [sc EXCEPT !.pendingData = <<>>],
       data |-> Take(sc.pendingData, n),
       err  |-> "nil" ]

\* the copy of pendingData into the caller's buffer of length plen
CopyOut(sc, plen) ==
  LET n == Min(plen, Len(sc.pendingData))
  IN [ sc   |-> [sc EXCEPT !.pendingData = Drop(sc.pendingData, n)],
       data |-> Take(sc.pendingData, n),
       err  |-> "nil" ]

\* The body of the loop of Read over a chunk, for the byte b.  d.sc is the
\* connection, d.miss tells that the loop has returned on a map miss (the
\* four hints are then left in hintBuf).
DecodeByte(d, b) ==
  IF d.miss \/ IsPadding(d.sc.isASCII, b) THEN d
  ELSE LET hb == Append(d.sc.hintBuf, b)
       IN IF Len(hb) = 4
          THEN LET e == DecodeMap(d.sc.isASCII, packHintsToKey(hb))
               IN IF ~e.ok
                  THEN [sc |-> [d.sc EXCEPT !.hintBuf = hb], miss |-> TRUE]
                  ELSE [sc |-> [d.sc EXCEPT
                                  !.hintBuf = <<>>,
                                  !.pendingData = Append(@, e.val)],
                        miss |-> FALSE]
          ELSE [sc |-> [d.sc EXCEPT !.hintBuf = hb], miss |-> FALSE]

RECURSIVE DecodeRange(_, _, _, _)
\* the loop of Read over chunk[lo..hi], in order: first the lower half of
\* the range, then the upper half (a long chunk is evaluated in shallow
\* recursion that way)
DecodeRange(d, chunk, lo, hi) ==
  IF lo > hi \/ d.miss THEN d
  ELSE IF lo = hi THEN DecodeByte(d, chunk[lo])
  ELSE LET mid == (lo + hi) \div 2
       IN DecodeRange(DecodeRange(d, chunk, lo, mid), chunk, mid + 1, hi)

\* The loop of Read over one chunk, from byte i on.
DecodeLegacy(sc, chunk, i) ==
  DecodeRange([sc |-> sc, miss |-> FALSE], chunk, i, Len(chunk))

\* (mutant) the recorder gets the hints only, not the padding
RecordHintsOnly(sc, chunk) ==
  IF sc.recording
  THEN [sc EXCEPT !.recorder =
          @ \o SelectSeq(chunk, LAMBDA b : ~IsPadding(sc.isASCII, b))]
  ELSE sc

\* recordLock section of the read path
Record(sc, chunk) ==
  IF sc.recording THEN [sc EXCEPT !.recorder = @ \o chunk] ELSE sc

\* One pass of the loop of Read in legacy mode: reader.Read returned chunk
\* and rErr.  The pass returns to the caller (ret) or loops (blocks in the
\* next reader.Read).
ReadPassLegacy(sc, plen, chunk, rErr) ==
  LET d == IF chunk # <<>>
           THEN DecodeLegacy(Record(sc, chunk), chunk, 1)
           ELSE [sc |-> sc, miss |-> FALSE]
  IN IF d.miss
     THEN [sc |-> d.sc, ret |-> TRUE, data |-> <<>>,
           err |-> "INVALID_SUDOKU_MAP_MISS"]
     ELSE IF rErr # "nil"
     THEN [sc |-> d.sc, ret |-> TRUE, data |-> <<>>, err |-> rErr]
     ELSE IF d.sc.pendingData # <<>>
     THEN CopyOut(d.sc, plen) @@ [ret |-> TRUE]
     ELSE [sc |-> d.sc, ret |-> FALSE, data |-> <<>>, err |-> "nil"]

(***************************************************************************)
(* Boost mode of sudoku.Conn.                                              *)
(***************************************************************************)
\* EnableBoost(write, read, aesKey, iv, isASCII): keyLen and ivLen are the
\* lengths of aesKey and iv, key and iv stand for their first 16 bytes
EnableBoost(sc, write, read, keyLen, ivLen, key, iv, isASCII) ==
  IF keyLen < 16 THEN [sc |-> sc, err |-> "aesKey too short"]
  ELSE IF ivLen < 16 THEN [sc |-> sc, err |-> "iv too short"]
  ELSE LET w == IF write
                THEN [sc EXCEPT !.boostEnc = NewCTR(key, iv),
                                !.encBitBuf = 0,
                                !.encBits = 0,
                                !.boostWrite = TRUE,
                                !.boostASCII = isASCII]
                ELSE sc
           r == IF read
                THEN [w EXCEPT !.boostDec = NewCTR(key, iv),
                               !.decBitBuf = 0,
                               !.decBits = 0,
                               !.boostRead = TRUE,
                               !.boostASCII = isASCII,
                               !.hintBuf = <<>>]
                ELSE w
       IN [sc |-> r, err |-> "nil"]

\* (mutant) the entropy packing leaves the two high bits where they are
packBoostByteNoShift(isASCII, bits) ==
  IF isASCII THEN BitOr(64, BitAnd(bits, 63))
  ELSE BitOr(BitAnd(bits, 48), BitAnd(bits, 15))

packBoostByte(isASCII, bits) ==
  IF isASCII THEN BitOr(64, BitAnd(bits, 63))
  ELSE BitOr(Shl(BitAnd(bits, 48), 1), BitAnd(bits, 15))

\* (mutant) the ASCII unpacking keeps five bits only
unpackBoostByteFiveBits(isASCII, b) ==
  IF isASCII THEN BitAnd(b, 31)
  ELSE BitOr(Shr(BitAnd(b, 96), 1), BitAnd(b, 15))

unpackBoostByte(isASCII, b) ==
  IF isASCII THEN BitAnd(b, 63)
  ELSE BitOr(Shr(BitAnd(b, 96), 1), BitAnd(b, 15))

\* stream.XORKeyStream(dst, src): dst and the stream after the call
XORKeyStream(st, src) ==
  [st  |-> [st EXCEPT !.pos = @ + Len(src)],
   dst |-> [i \in 1..Len(src) |->
              BitXor(src[i], KeyStream(st.key, st.iv, st.pos + i - 1))]]

RECURSIVE BoostEmitNoMask(_, _)
\* (mutant) the inner loop of writeBoost without the mask of the accumulator
BoostEmitNoMask(w, sc) ==
  IF w.encBits < 6 THEN w
  ELSE LET bits == w.encBits - 6
           chunk == BitAnd(Shr(w.encBitBuf, bits) % 256, 63)
           encoded == packBoostByte(sc.boostASCII, chunk)
           c == PadCoin([rng |-> w.rng, out |-> w.out],
                        sc.isASCII, sc.paddingRate)
       IN BoostEmitNoMask([rng |-> c.rng,
                           out |-> Append(c.out, encoded),
                           encBits |-> bits,
                           encBitBuf |-> IF bits = 0 THEN 0
                                         ELSE w.encBitBuf],
                          sc)

RECURSIVE BoostEmit(_, _)
\* The inner loop of writeBoost: while encBits >= 6 a symbol is taken from
\* the top of the accumulator, after a padding coin.  w carries rng, out and
\* the accumulator.
BoostEmit(w, sc) ==
  IF w.encBits < 6 THEN w
  ELSE LET bits == w.encBits - 6
           chunk == BitAnd(Shr(w.encBitBuf, bits) % 256, 63)
           encoded == packBoostByte(sc.boostASCII, chunk)
           c == PadCoin([rng |-> w.rng, out |-> w.out],
                        sc.isASCII, sc.paddingRate)
       IN BoostEmit([rng |-> c.rng,
                     out |-> Append(c.out, encoded),
                     encBits |-> bits,
                     encBitBuf |-> IF bits = 0 THEN 0
                                   ELSE BitAnd(w.encBitBuf, Pow2(bits) - 1)],
                    sc)

RECURSIVE BoostWriteRange(_, _, _, _, _)
\* the loop of writeBoost over encBuf[lo..hi], in order: first the lower
\* half of the range, then the upper half
BoostWriteRange(w, sc, encBuf, lo, hi) ==
  IF lo > hi THEN w
  ELSE IF lo = hi
  THEN BoostEmit([w EXCEPT
                    !.encBitBuf = BitOr(Shl(w.encBitBuf, 8), encBuf[lo]),
                    !.encBits = w.encBits + 8], sc)
  ELSE LET mid == (lo + hi) \div 2
       IN CHOOSE r \in
            { BoostWriteRange(lower, sc, encBuf, mid + 1, hi) :
                lower \in { BoostWriteRange(w, sc, encBuf, lo, mid) } } :
            TRUE

\* the loop of writeBoost over encBuf, from byte i on
BoostWriteBytes(w, sc, encBuf, i) ==
  BoostWriteRange(w, sc, encBuf, i, Len(encBuf))

\* writeBoost(p): the connection after the call, the bytes handed to the
\* transport and the error
writeBoost(sc, p) ==
  IF ~sc.boostEnc.on
  THEN [sc |-> sc, out |-> <<>>, n |-> 0,
        err |-> "boost encoder not initialized"]
  ELSE LET x == XORKeyStream(sc.boostEnc, p)
           w == BoostWriteBytes([rng |-> sc.rng, out |-> <<>>,
                                 encBits |-> sc.encBits,
                                 encBitBuf |-> sc.encBitBuf],
                                sc, x.dst, 1)
           t == PadCoin([rng |-> w.rng, out |-> w.out],
                        sc.isASCII, sc.paddingRate)
       IN [sc  |-> [sc EXCEPT !.boostEnc = x.st,
                              !.rng = t.rng,
                              !.encBits = w.encBits,
                              !.encBitBuf = w.encBitBuf],
           out |-> t.out, n |-> Len(p), err |-> "nil"]

\* Conn.Write(p)
ConnWrite(sc, p) ==
  IF p = <<>> THEN [sc |-> sc, out |-> <<>>, n |-> 0, err |-> "nil"]
  ELSE IF sc.boostWrite THEN writeBoost(sc, p)
  ELSE WriteLegacy(sc, p) @@ [n |-> Len(p), err |-> "nil"]

\* (mutant) the residual bits are not shifted to the top of the 6-bit field
flushBoostPaddingRightAligned(sc) ==
  IF ~sc.boostWrite \/ sc.encBits = 0 THEN [sc |-> sc, out |-> <<>>]
  ELSE LET remaining == BitAnd(sc.encBitBuf, 63) % 256
           encoded == packBoostByte(sc.boostASCII, remaining)
           c1 == PadCoin([rng |-> sc.rng, out |-> <<>>],
                         sc.isASCII, sc.paddingRate)
           c2 == PadCoin([rng |-> c1.rng, out |-> Append(c1.out, encoded)],
                         sc.isASCII, sc.paddingRate)
       IN [sc |-> [sc EXCEPT !.rng = c2.rng, !.encBitBuf = 0, !.encBits = 0],
           out |-> c2.out]

\* flushBoostPadding: the leftover bits, zero padded, as a last symbol
flushBoostPadding(sc) ==
  IF ~sc.boostWrite \/ sc.encBits = 0 THEN [sc |-> sc, out |-> <<>>]
  ELSE LET remaining == BitAnd(Shl(sc.encBitBuf, 6 - sc.encBits), 63) % 256
           encoded == packBoostByte(sc.boostASCII, remaining)
           c1 == PadCoin([rng |-> sc.rng, out |-> <<>>],
                         sc.isASCII, sc.paddingRate)
           c2 == PadCoin([rng |-> c1.rng, out |-> Append(c1.out, encoded)],
                         sc.isASCII, sc.paddingRate)
       IN [sc  |-> [sc EXCEPT !.rng = c2.rng, !.encBitBuf = 0, !.encBits = 0],
           out |-> c2.out]

\* Conn.Close: the flush of boost mode, then the transport is closed
ConnClose(sc) ==
  IF sc.boostWrite THEN flushBoostPadding(sc) ELSE [sc |-> sc, out |-> <<>>]

RECURSIVE BoostTake(_)
\* The inner loop of readBoost: while decBits >= 8 a byte is taken from the
\* top of the accumulator and decrypted.  A missing decoder returns at once.
BoostTake(d) ==
  IF d.miss \/ d.sc.decBits < 8 THEN d
  ELSE LET bits == d.sc.decBits - 8
           byteVal == Shr(d.sc.decBitBuf, bits) % 256
           s1 == [d.sc EXCEPT !.decBits = bits,
                              !.decBitBuf = IF bits = 0 THEN 0
                                            ELSE BitAnd(@, Pow2(bits) - 1)]
       IN IF ~s1.boostDec.on THEN [sc |-> s1, miss |-> TRUE]
          ELSE LET x == XORKeyStream(s1.boostDec, <<byteVal>>)
               IN BoostTake([sc |-> [s1 EXCEPT !.boostDec = x.st,
                                              !.pendingData = @ \o x.dst],
                             miss |-> FALSE])

\* the body of the loop of readBoost over a chunk, for the byte b
DecodeBoostByte(sc, b) ==
  IF IsPadding(sc.boostASCII, b) THEN [sc |-> sc, miss |-> FALSE]
  ELSE LET chunkBits == unpackBoostByte(sc.boostASCII, b)
       IN BoostTake([sc |-> [sc EXCEPT
                               !.decBitBuf = BitOr(Shl(@, 6), chunkBits),
                               !.decBits = @ + 6],
                     miss |-> FALSE])

RECURSIVE DecodeBoostRange(_, _, _, _)
\* the loop of readBoost over chunk[lo..hi], in order: first the lower half
\* of the range, then the upper half
DecodeBoostRange(d, chunk, lo, hi) ==
  IF lo > hi \/ d.miss THEN d
  ELSE IF lo = hi THEN DecodeBoostByte(d.sc, chunk[lo])
  ELSE LET mid == (lo + hi) \div 2
       IN DecodeBoostRange(DecodeBoostRange(d, chunk, lo, mid),
                           chunk, mid + 1, hi)

\* the loop of readBoost over one chunk, from byte i on
DecodeBoost(sc, chunk, i) ==
  DecodeBoostRange([sc |-> sc, miss |-> FALSE], chunk, i, Len(chunk))

\* One pass of the loop of readBoost: reader.Read returned chunk and rErr.
ReadPassBoost(sc, plen, chunk, rErr) ==
  LET d == IF chunk # <<>>
           THEN DecodeBoost(Record(sc, chunk), chunk, 1)
           ELSE [sc |-> sc, miss |-> FALSE]
  IN IF d.miss
     THEN [sc |-> d.sc, ret |-> TRUE, data |-> <<>>,
           err |-> "boost decoder missing"]
     ELSE IF rErr # "nil"
     THEN [sc |-> d.sc, ret |-> TRUE, data |-> <<>>, err |-> rErr]
     ELSE IF d.sc.pendingData # <<>>
     THEN CopyOut(d.sc, plen) @@ [ret |-> TRUE]
     ELSE [sc |-> d.sc, ret |-> FALSE, data |-> <<>>, err |-> "nil"]

\* one pass of the loop of Read in the mode of the read side
ReadPass(sc, plen, chunk, rErr) ==
  IF sc.boostRead THEN ReadPassBoost(sc, plen, chunk, rErr)
  ELSE ReadPassLegacy(sc, plen, chunk, rErr)

(***************************************************************************)
(* State.                                                                  *)
(***************************************************************************)
VARIABLES
  \* two sudoku.Conn over one transport direction: snd writes, rcv reads
  snd, rcv,
  \* raw bytes written to the transport and not yet read from it
  wire,
  \* every raw byte written to the transport so far
  rawSent,
  \* the writer has closed its connection
  sndClosed,
  \* plaintext the application still has to write / has written
  toSend, sent,
  \* the number of Write calls made
  nWrites,
  \* plaintext the reading application got from Read, in order
  received,
  \* the caller's buffer length while a Read call is blocked in its loop,
  \* 0 when no Read call is in progress
  rdPlen,
  \* the error the last Read call returned ("nil" for none)
  rdErr

codecVars ==
  <<snd, rcv, wire, rawSent, sndClosed, toSend, sent, nWrites, received,
    rdPlen, rdErr>>

VARIABLES
  \* ServerHandshake: cfg (Table mode, DisableHTTPMask, AEADMethod)
  hsCfg,
  \* the peer of the server: where its Dial stands, its sudoku.Conn, and
  \* the timestamp field and the address it sends
  hsPeer,
  \* every raw byte the peer has sent on the connection, and the bytes of
  \* it that are still unread on rawConn
  hsClient, hsWire,
  \* the bytes buffered in bufReader
  hsBuf,
  \* the bytes ConsumeHeader has consumed so far (its buffer consumed), and
  \* whether the request line has been read
  hsConsumed, hsLineRead,
  \* sConn, with recording on
  hsConn,
  \* the plaintext the read in progress (io.ReadFull, ReadAddress) has got
  hsGot,
  \* handshakeBuf once it has been read in full
  hsPayload,
  \* where ServerHandshake stands
  hsPc,
  \* the HandshakeError returned, and whether rawConn has been closed
  hsErr, hsRawClosed

hsVars ==
  <<hsCfg, hsPeer, hsClient, hsWire, hsBuf, hsConsumed, hsLineRead, hsConn, hsGot,
    hsPayload, hsPc, hsErr, hsRawClosed>>

VARIABLES
  \* every byte written to the base connection of the sending side, the
  \* bytes of it not yet read by the receiving ControlConn, and whether the
  \* sending side has closed
  ctlIn, ctlWire, ctlClosed,
  \* the frames given to SendControl and the data given to Write, in order
  ctlFrames, ctlData,
  \* the receiving ControlConn: readBuf, dataBuf
  ctlReadBuf, ctlDataBuf,
  \* the calls of the handler, in order
  ctlHandled,
  \* the bytes Read has returned, in order, and the error it returned
  ctlOut, ctlErr,
  \* the calls of Write and SendControl made so far
  ctlSends

ctlVars ==
  <<ctlIn, ctlWire, ctlClosed, ctlFrames, ctlData, ctlReadBuf, ctlDataBuf,
    ctlHandled, ctlOut, ctlErr, ctlSends>>

VARIABLES
  \* the write mutex of a ControlConn: the thread that holds it, or "none"
  mxMu,
  \* each sending thread: where it is in Write or SendControl, and the bytes
  \* its Conn.Write has still to hand to the connection
  mxThreads,
  \* the connection below the ControlConn: each byte with the call it is of
  mxWire,
  \* the calls made so far: for each, whether it is a frame, and its bytes
  mxCalls

mxVars == <<mxMu, mxThreads, mxWire, mxCalls>>

VARIABLES
  \* the BandwidthMonitor: window (samples [t, len]), total, triggered,
  \* pendingTick
  bmMonitor,
  \* time.Now()
  bmNow,
  \* the calls of Add made so far
  bmCalls,
  \* the last call of Add: its n, what it returned, triggered as it was
  \* before the call, and the total after the admission before it (-1: none)
  bmLast,
  \* how many calls of Add have returned true
  bmFired

bmVars == <<bmMonitor, bmNow, bmCalls, bmLast, bmFired>>

VARIABLES
  \* the client of a boost negotiation: its sudoku.Conn, the readBuf and
  \* dataBuf of its ControlConn, requested and activated of wrapAPIBoost,
  \* and its BandwidthMonitor
  upCli, upCtl, upRequested, upActivated, upMonitor,
  \* time.Now() at the client
  upNow,
  \* the server: its sudoku.Conn and the readBuf of its ControlConn
  upSrv, upSrvCtl,
  \* the raw bytes in flight from the client to the server and back
  upUp, upDown,
  \* the bytes in flight to the client's ControlConn, when the layers below
  \* it are left out
  upFeed,
  \* what the server's application has written, and what the client's has
  \* read, with the error its Read returned
  upWritten, upRead, upErr,
  \* the calls of SendControl(BOOST_REQUEST) at the client: for each,
  \* activated and requested as they were, and whether it succeeded
  upReqs,
  \* the frames the client's handler was called with
  upFrames,
  \* pieces sent so far
  upSteps,
  \* for each write of the client's application, activated as it was
  upWrote,
  \* Dial: the configuration, the step Dial is at, the writes made on the
  \* transport, the connection under construction, what Dial returned and
  \* whether rawConn is closed
  dlCfg, dlPc, dlWire, dlConn, dlRet, dlRawClosed

upVars ==
  <<upCli, upCtl, upRequested, upActivated, upMonitor, upNow, upSrv, upSrvCtl,
    upUp, upDown, upFeed, upWritten, upRead, upErr, upReqs, upFrames, upSteps,
    upWrote>>

dlVars == <<dlCfg, dlPc, dlWire, dlConn, dlRet, dlRawClosed>>

VARIABLES
  \* httpmask: the stream (header, tail, wire), the reader (buf) and where
  \* ConsumeHeader is (consumed, lineRead, res), one record
  mk

mkVars == <<mk>>

VARIABLES
  \* buildHandshakePayload: the key, the clock and the payload built last,
  \* one record
  hp

hpVars == <<hp>>

VARIABLES
  \* the address codec: the address handed to WriteAddress, the buffer it
  \* writes to and ReadAddress reads from, and their results, one record
  ad

adVars == <<ad>>

VARIABLES
  \* two AEADConn over a pipe: the cipher name and the key of each side, the
  \* sender's and the receiver's nonce counters, the bytes on the pipe, the
  \* receiver's opened bytes not yet returned, what was written and read,
  \* and the receiver's error, one record
  ae

aeVars == <<ae>>

VARIABLES
  \* key derivation: the master pair, the split key and what
  \* RecoverPublicKey returned for the split key and for the master scalar,
  \* one record
  ks

ksVars == <<ks>>

VARIABLES
  \* HandleSuspicious: where the handler is, the bytes R its wrapper
  \* recorded, what the client still means to write, has written and has in
  \* the pipe, whether it closed, and what the fallback endpoint was sent
  \* and whether its connection was closed, one record
  fb

fbVars == <<fb>>

VARIABLES
  \* one carrier byte: the boost mode, the 6-bit value handed to
  \* packBoostByte, the byte it returned, how the read loop classified it
  \* and what unpackBoostByte returned for it, one record
  bb

bbVars == <<bb>>

VARIABLES
  \* a reading sudoku.Conn over a transport of any content: the connection
  \* (sc), the raw bytes the transport has still to deliver (wire), the
  \* error it ends with (end) and whether it has reported it (failed),
  \* whether a call of Read is in progress (in) and the length of its
  \* buffer (cap), what the call that returned last returned (data, err),
  \* everything Read has returned (got) and whether a call has returned
  \* the map miss (missed), one record
  rd

rdVars == <<rd>>

VARIABLES
  \* a recording sudoku.Conn with three threads on it: the connection (sc),
  \* the holder of recordLock (mu), the raw bytes the transport has still
  \* to deliver (wire) and all it has delivered (pulled); where the thread
  \* in Read is (rdPc), the chunk it holds and the value of sc.recording it
  \* read; where the thread in StopRecording (stPc) and the thread in
  \* GetBufferedAndRecorded (gtPc) are and what the latter returned (gtOut);
  \* the calls of recorder.Write made (writes) and whether one was made on
  \* the released recorder (wroteNil), one record
  rc

rcVars == <<rc>>

VARIABLES
  \* a sudoku.Conn in boost write mode with two threads in Write and one in
  \* Close: the connection (sc), the holder of boostMu (mu), the bytes the
  \* transport has taken (wire) and whether it is closed (closed); of each
  \* writing thread where it is (pc), its plaintext (p), its encBuf and its
  \* out (th); where the closing thread is (cl); the plaintexts in the order
  \* in which their keystream was taken (order), one record
  bw

bwVars == <<bw>>

VARIABLES
  \* a client and a server over a transport of bounded buffering: the bytes
  \* in flight to the server (up) and to the client (down), 0 for a data
  \* byte and 1 for a byte of a control frame; the holders of the write
  \* mutex of the client's and of the server's ControlConn (cMu, sMu); the
  \* client's writer (cw) and reader (cr) threads and the server's reader
  \* (sr) and writer (sw) threads, each with where it is and the bytes its
  \* Conn.Write has still to hand over; requested of wrapAPIBoost, one
  \* record
  dk

dkVars == <<dk>>

VARIABLES
  \* two handshakes at one server whose payloads differ in the key hash: a
  \* record
  kh

khVars == <<kh>>

VARIABLES
  \* pipeConn with its two copy directions: a record
  pp

ppVars == <<pp>>

vars == <<codecVars, hsVars, ctlVars, mxVars, bmVars, upVars, dlVars, mkVars,
    hpVars, adVars, aeVars, ksVars, fbVars, bbVars, rdVars, rcVars, bwVars,
    dkVars, khVars, ppVars>>

\* all but the codec's variables
notCodecVars == <<hsVars, ctlVars, mxVars, bmVars, upVars, dlVars, mkVars,
    hpVars, adVars, aeVars, ksVars, fbVars, bbVars, rdVars, rcVars, bwVars,
    dkVars, khVars, ppVars>>

\* all but the handshake's variables
notHsVars == <<codecVars, ctlVars, mxVars, bmVars, upVars, dlVars, mkVars,
    hpVars, adVars, aeVars, ksVars, fbVars, bbVars, rdVars, rcVars, bwVars,
    dkVars, khVars, ppVars>>

\* all but the control reader's variables
notCtlVars == <<codecVars, hsVars, mxVars, bmVars, upVars, dlVars, mkVars,
    hpVars, adVars, aeVars, ksVars, fbVars, bbVars, rdVars, rcVars, bwVars,
    dkVars, khVars, ppVars>>

\* all but the variables of the writers of a ControlConn
notMxVars == <<codecVars, hsVars, ctlVars, bmVars, upVars, dlVars, mkVars,
    hpVars, adVars, aeVars, ksVars, fbVars, bbVars, rdVars, rcVars, bwVars,
    dkVars, khVars, ppVars>>

\* all but the bandwidth monitor's variables
notBmVars == <<codecVars, hsVars, ctlVars, mxVars, upVars, dlVars, mkVars,
    hpVars, adVars, aeVars, ksVars, fbVars, bbVars, rdVars, rcVars, bwVars,
    dkVars, khVars, ppVars>>

\* all but the variables of the boost negotiation
notUpVars == <<codecVars, hsVars, ctlVars, mxVars, bmVars, dlVars, mkVars,
    hpVars, adVars, aeVars, ksVars, fbVars, bbVars, rdVars, rcVars, bwVars,
    dkVars, khVars, ppVars>>

\* all but the variables of Dial
notDlVars == <<codecVars, hsVars, ctlVars, mxVars, bmVars, upVars, mkVars,
    hpVars, adVars, aeVars, ksVars, fbVars, bbVars, rdVars, rcVars, bwVars,
    dkVars, khVars, ppVars>>

\* all but the variables of mkVars
notMkVars == <<codecVars, hsVars, ctlVars, mxVars, bmVars, upVars, dlVars,
    hpVars, adVars, aeVars, ksVars, fbVars, bbVars, rdVars, rcVars, bwVars,
    dkVars, khVars, ppVars>>

\* all but the variables of hpVars
notHpVars == <<codecVars, hsVars, ctlVars, mxVars, bmVars, upVars, dlVars,
    mkVars, adVars, aeVars, ksVars, fbVars, bbVars, rdVars, rcVars, bwVars,
    dkVars, khVars, ppVars>>

\* all but the variables of adVars
notAdVars == <<codecVars, hsVars, ctlVars, mxVars, bmVars, upVars, dlVars,
    mkVars, hpVars, aeVars, ksVars, fbVars, bbVars, rdVars, rcVars, bwVars,
    dkVars, khVars, ppVars>>

\* all but the variables of aeVars
notAeVars == <<codecVars, hsVars, ctlVars, mxVars, bmVars, upVars, dlVars,
    mkVars, hpVars, adVars, ksVars, fbVars, bbVars, rdVars, rcVars, bwVars,
    dkVars, khVars, ppVars>>

\* all but the variables of ksVars
notKsVars == <<codecVars, hsVars, ctlVars, mxVars, bmVars, upVars, dlVars,
    mkVars, hpVars, adVars, aeVars, fbVars, bbVars, rdVars, rcVars, bwVars,
    dkVars, khVars, ppVars>>

\* all but the variables of fbVars
notFbVars == <<codecVars, hsVars, ctlVars, mxVars, bmVars, upVars, dlVars,
    mkVars, hpVars, adVars, aeVars, ksVars, bbVars, rdVars, rcVars, bwVars,
    dkVars, khVars, ppVars>>

\* all but the variables of bbVars
notBbVars == <<codecVars, hsVars, ctlVars, mxVars, bmVars, upVars, dlVars,
    mkVars, hpVars, adVars, aeVars, ksVars, fbVars, rdVars, rcVars, bwVars,
    dkVars, khVars, ppVars>>

\* all but the variables of rdVars
notRdVars == <<codecVars, hsVars, ctlVars, mxVars, bmVars, upVars, dlVars,
    mkVars, hpVars, adVars, aeVars, ksVars, fbVars, bbVars, rcVars, bwVars,
    dkVars, khVars, ppVars>>

\* all but the variables of rcVars
notRcVars == <<codecVars, hsVars, ctlVars, mxVars, bmVars, upVars, dlVars,
    mkVars, hpVars, adVars, aeVars, ksVars, fbVars, bbVars, rdVars, bwVars,
    dkVars, khVars, ppVars>>

\* all but the variables of bwVars
notBwVars == <<codecVars, hsVars, ctlVars, mxVars, bmVars, upVars, dlVars,
    mkVars, hpVars, adVars, aeVars, ksVars, fbVars, bbVars, rdVars, rcVars,
    dkVars, khVars, ppVars>>

\* all but the variables of dkVars
notDkVars == <<codecVars, hsVars, ctlVars, mxVars, bmVars, upVars, dlVars,
    mkVars, hpVars, adVars, aeVars, ksVars, fbVars, bbVars, rdVars, rcVars,
    bwVars, khVars, ppVars>>

\* all but the variables of khVars
notKhVars == <<codecVars, hsVars, ctlVars, mxVars, bmVars, upVars, dlVars,
    mkVars, hpVars, adVars, aeVars, ksVars, fbVars, bbVars, rdVars, rcVars,
    bwVars, dkVars, ppVars>>

\* all but the variables of ppVars
notPpVars == <<codecVars, hsVars, ctlVars, mxVars, bmVars, upVars, dlVars,
    mkVars, hpVars, adVars, aeVars, ksVars, fbVars, bbVars, rdVars, rcVars,
    bwVars, dkVars, khVars>>

\* no pipeConn call
PpIdle == pp = [pc |-> <<>>, done |-> 0, mu |-> "none", closedA |-> 0,
                closedB |-> 0, runs |-> 0, moved |-> <<>>, ended |-> <<>>]

\* no pair of handshakes
KhIdle == kh = [isASCII |-> TRUE, ts |-> <<>>, run |-> <<>>]

\* no client and server threads
DkIdle == dk = [up |-> <<>>, down |-> <<>>, cMu |-> "none", sMu |-> "none",
                cw |-> [pc |-> "idle", left |-> 0, calls |-> 0],
                cr |-> [pc |-> "idle", left |-> 0],
                sr |-> [pc |-> "idle", left |-> 0, got |-> 0],
                sw |-> [pc |-> "idle", left |-> 0, calls |-> 0],
                requested |-> FALSE]

\* no threads on a boost-mode connection
BwIdle == bw = [sc |-> NewConn(TRUE, 0, 0, FALSE), mu |-> 0, wire |-> <<>>,
                closed |-> FALSE, th |-> <<>>, cl |-> "idle",
                order |-> <<>>]

\* no threads on a recording connection
RcIdle == rc = [sc |-> NewConn(TRUE, 0, 0, FALSE), mu |-> "none",
                wire |-> <<>>, pulled |-> <<>>, rdPc |-> "idle",
                chunk |-> <<>>, rec |-> FALSE, stPc |-> "idle",
                gtPc |-> "idle", gtOut |-> <<>>, writes |-> 0,
                wroteNil |-> FALSE]

\* no reader over an arbitrary transport
RdIdle == rd = [sc |-> NewConn(TRUE, 0, 0, FALSE), wire |-> <<>>,
                end |-> "EOF", failed |-> FALSE, in |-> FALSE, cap |-> 0,
                data |-> <<>>, err |-> "nil", got |-> <<>>,
                missed |-> FALSE]

\* no carrier byte is being followed
BbIdle == bb = [ascii |-> FALSE, v |-> 0, st |-> "idle", carrier |-> 0,
                padding |-> FALSE, unpacked |-> 0]

\* no suspicious connection is being handled
FbIdle == fb = [pc |-> "idle"]

\* no key is being derived
KsIdle == ks = [pc |-> "idle"]

\* no AEADConn is open
AeIdle == ae = [method |-> "idle"]

\* no address is being written or read
AdIdle == ad = [pc |-> "idle"]

\* no payload is being built
HpIdle == hp = [key |-> <<>>, now |-> 0, payload |-> <<>>, builtAt |-> 0]

\* no header is being consumed
MkIdle == mk = [res |-> "idle"]

\* the threshold of the monitor, in bytes
BmThreshold == 4

\* the window of the monitor, in ticks of the clock
BmWindowDur == 2

\* NewBandwidthMonitor(threshold, window)
NewBandwidthMonitor(thresholdBytes, window) ==
  [window |-> <<>>, total |-> 0, threshold |-> thresholdBytes,
   windowDur |-> window, triggered |-> FALSE, pendingTick |-> FALSE]

\* no monitor in use
BmIdle ==
  /\ bmMonitor = NewBandwidthMonitor(BmThreshold, BmWindowDur)
  /\ bmNow = 0
  /\ bmCalls = 0
  /\ bmLast = [n |-> 0, ret |-> FALSE, before |-> FALSE, prevTotal |-> 0 - 1]
  /\ bmFired = 0

\* no boost negotiation in progress
UpIdle ==
  /\ upCli = NewConn(TRUE, 0, 0, FALSE)
  /\ upCtl = [readBuf |-> <<>>, dataBuf |-> <<>>]
  /\ upRequested = FALSE
  /\ upActivated = FALSE
  /\ upMonitor = NewBandwidthMonitor(BmThreshold, BmWindowDur)
  /\ upNow = 0
  /\ upSrv = NewConn(TRUE, 0, 0, FALSE)
  /\ upSrvCtl = [readBuf |-> <<>>, dataBuf |-> <<>>]
  /\ upUp = <<>>
  /\ upDown = <<>>
  /\ upFeed = <<>>
  /\ upWritten = <<>>
  /\ upRead = <<>>
  /\ upErr = "nil"
  /\ upReqs = <<>>
  /\ upFrames = <<>>
  /\ upSteps = 0
  /\ upWrote = <<>>

\* no key material
NoKey == [hash |-> "none", seed |-> [form |-> "none", id |-> 0], suffix |-> ""]

\* Dial has not been called
DlIdle ==
  /\ dlCfg = [Key |-> [form |-> "raw", id |-> 1], DisableHTTPMask |-> TRUE,
              EnableDownlinkBoost |-> FALSE, AEADMethod |-> "none",
              UoT |-> FALSE]
  /\ dlPc = "idle"
  /\ dlWire = <<>>
  /\ dlConn = [raw |-> FALSE, sConn |-> FALSE, aeadKey |-> NoKey,
               ctrl |-> FALSE, controlKey |-> NoKey, aesKey |-> NoKey]
  /\ dlRet = [conn |-> "none", err |-> "nil"]
  /\ dlRawClosed = FALSE

\* the threads that write to one ControlConn
Threads == {"t1", "t2"}

\* no thread is writing
MxIdle ==
  /\ mxMu = "none"
  /\ mxThreads = [t \in Threads |-> [pc |-> "idle", call |-> 0, buf |-> <<>>]]
  /\ mxWire = <<>>
  /\ mxCalls = <<>>


\* no handshake in progress
HsIdle ==
  /\ hsCfg = [isASCII |-> TRUE, DisableHTTPMask |-> FALSE, AEADMethod |-> "none"]
  /\ hsPeer = [stage |-> "stopped", sc |-> NewConn(TRUE, 0, 0, FALSE),
               ts |-> <<>>, addr |-> <<>>]
  /\ hsClient = <<>>
  /\ hsWire = <<>>
  /\ hsBuf = <<>>
  /\ hsConsumed = <<>>
  /\ hsLineRead = FALSE
  /\ hsConn = NewConn(TRUE, 0, 0, FALSE)
  /\ hsGot = <<>>
  /\ hsPayload = <<>>
  /\ hsPc = "idle"
  /\ hsErr = [kind |-> "nil", HTTPHeaderData |-> <<>>, ReadData |-> <<>>]
  /\ hsRawClosed = FALSE

\* no control multiplexer in use
CtlIdle ==
  /\ ctlIn = <<>>
  /\ ctlWire = <<>>
  /\ ctlClosed = FALSE
  /\ ctlFrames = <<>>
  /\ ctlData = <<>>
  /\ ctlReadBuf = <<>>
  /\ ctlDataBuf = <<>>
  /\ ctlHandled = <<>>
  /\ ctlOut = <<>>
  /\ ctlErr = "nil"
  /\ ctlSends = 0

(***************************************************************************)
(* The codec: one writer, one reader, a reliable ordered transport.        *)
(***************************************************************************)
\* plaintext values the writer sends in legacy mode
PayloadBytes == {0, 1}

Payloads == UNION { [1..n -> PayloadBytes] : n \in 1..MaxPayload }

\* padding rates in percent
PadRates == {0, 30, 100}

Seeds == 0..(NumSeeds - 1)

CodecIdle ==
  /\ snd = NewConn(TRUE, 0, 0, FALSE)
  /\ rcv = NewConn(TRUE, 0, 0, FALSE)
  /\ wire = <<>>
  /\ rawSent = <<>>
  /\ sndClosed = FALSE
  /\ toSend = <<>>
  /\ sent = <<>>
  /\ nWrites = 0
  /\ received = <<>>
  /\ rdPlen = 0
  /\ rdErr = "nil"

InitCodec ==
  /\ \E m \in BOOLEAN : \E r \in PadRates : \E seed \in Seeds :
       /\ snd = NewConn(m, r, seed, FALSE)
       /\ rcv = NewConn(m, 0, 0, FALSE)
  /\ wire = <<>>
  /\ rawSent = <<>>
  /\ sndClosed = FALSE
  /\ toSend \in Payloads
  /\ sent = <<>>
  /\ nWrites = 0
  /\ received = <<>>
  /\ rdPlen = 0
  /\ rdErr = "nil"
  /\ HsIdle
  /\ CtlIdle
  /\ MxIdle
  /\ BmIdle
  /\ UpIdle
  /\ DlIdle
  /\ MkIdle
  /\ HpIdle
  /\ AdIdle
  /\ AeIdle
  /\ KsIdle
  /\ FbIdle
  /\ BbIdle
  /\ RdIdle
  /\ RcIdle
  /\ BwIdle
  /\ DkIdle
  /\ KhIdle
  /\ PpIdle

\* snd.Write(p) with p a prefix of what is left to send
AppWrite ==
  /\ toSend # <<>>
  /\ ~sndClosed
  /\ \E n \in 1..Min(MaxWriteLen, Len(toSend)) :
       LET p == Take(toSend, n)
           r == ConnWrite(snd, p)
       IN /\ Len(wire) + Len(r.out) <= WireCap
          /\ snd' = r.sc
          /\ wire' = wire \o r.out
          /\ rawSent' = rawSent \o r.out
          /\ toSend' = Drop(toSend, n)
          /\ sent' = sent \o p
          /\ nWrites' = nWrites + 1
  /\ UNCHANGED <<rcv, sndClosed, received, rdPlen, rdErr>>
  /\ UNCHANGED notCodecVars

\* rcv.Read(p), len(p) = plen: data is pending and is returned at once
AppReadPending ==
  /\ rdPlen = 0
  /\ rcv.pendingData # <<>>
  /\ \E plen \in 1..MaxBuf :
       LET r == CopyOut(rcv, plen)
       IN /\ rcv' = r.sc
          /\ received' = received \o r.data
          /\ rdErr' = r.err
  /\ UNCHANGED <<snd, wire, rawSent, sndClosed, toSend, sent, nWrites, rdPlen>>
  /\ UNCHANGED notCodecVars

\* rcv.Read(p): nothing is pending, the call enters its loop
AppReadEnter ==
  /\ rdPlen = 0
  /\ rcv.pendingData = <<>>
  /\ \E plen \in 1..MaxBuf : rdPlen' = plen
  /\ UNCHANGED <<snd, rcv, wire, rawSent, sndClosed, toSend, sent, nWrites,
                 received, rdErr>>
  /\ UNCHANGED notCodecVars

\* one pass of the loop of Read: the transport delivers the next k bytes
AppReadPass ==
  /\ rdPlen > 0
  /\ wire # <<>>
  /\ \E k \in 1..Len(wire) :
       LET r == ReadPass(rcv, rdPlen, Take(wire, k), "nil")
       IN /\ rcv' = r.sc
          /\ wire' = Drop(wire, k)
          /\ received' = received \o r.data
          /\ rdErr' = r.err
          /\ rdPlen' = IF r.ret THEN 0 ELSE rdPlen
  /\ UNCHANGED <<snd, rawSent, sndClosed, toSend, sent, nWrites>>
  /\ UNCHANGED notCodecVars

\* one pass of the loop of Read: the transport is drained and closed
AppReadEOF ==
  /\ rdPlen > 0
  /\ wire = <<>>
  /\ sndClosed
  /\ LET r == ReadPass(rcv, rdPlen, <<>>, "EOF")
     IN /\ rcv' = r.sc
        /\ received' = received \o r.data
        /\ rdErr' = r.err
        /\ rdPlen' = IF r.ret THEN 0 ELSE rdPlen
  /\ UNCHANGED <<snd, wire, rawSent, sndClosed, toSend, sent, nWrites>>
  /\ UNCHANGED notCodecVars

\* snd.Close()
AppClose ==
  /\ ~sndClosed
  /\ toSend = <<>>
  /\ LET r == ConnClose(snd)
     IN /\ snd' = r.sc
        /\ wire' = wire \o r.out
        /\ rawSent' = rawSent \o r.out
  /\ sndClosed' = TRUE
  /\ UNCHANGED <<rcv, toSend, sent, nWrites, received, rdPlen, rdErr>>
  /\ UNCHANGED notCodecVars

NextCodec == AppWrite \/ AppReadPending \/ AppReadEnter \/ AppReadPass

SpecCodec == InitCodec /\ [][NextCodec]_vars

\* C1: legacy round trip.  What Read has returned is at every moment a
\* prefix of what Write was given, Read reports no error, and once the
\* transport and the reader's pending buffer are drained the reader has
\* got exactly the bytes written, in order.
CodecRoundTrip ==
  /\ IsPrefix(received, sent)
  /\ rdErr = "nil"
  /\ (wire = <<>> /\ rcv.pendingData = <<>>) => received = sent

CodecRoundTripWitness ==
  /\ toSend = <<>>
  /\ Len(sent) = 2
  /\ sent[1] # sent[2]
  /\ received = sent
  /\ Len(rawSent) > 4 * Len(sent)

(***************************************************************************)
(* Boost mode on both ends: the writer enables its write side, the reader  *)
(* its read side with the writer's key and IV; the mode is the table's, as *)
(* wrapAPIBoost passes it.                                                 *)
(***************************************************************************)
\* the payload of the ASCII round trip test, and a second one
BoostSources ==
  { <<58, 31, 113, 66, 153, 16, 124>>, <<255, 0, 170, 85, 1, 128, 254>> }

\* the plaintexts the writer sends in boost mode
BoostPayloads ==
  { Take(src, n) : src \in BoostSources, n \in 1..Min(MaxBoostPayload, 7) }

\* the IVs of the two round trip tests (one byte repeated)
BoostIVs == {171, 17}

InitBoost ==
  /\ \E m \in BOOLEAN : \E r \in {0, 30} : \E seed \in Seeds :
       /\ snd = NewConn(m, r, seed, FALSE)
       /\ rcv = NewConn(m, 0, 0, FALSE)
  /\ wire = <<>>
  /\ rawSent = <<>>
  /\ sndClosed = FALSE
  /\ toSend \in BoostPayloads
  /\ sent = <<>>
  /\ nWrites = 0
  /\ received = <<>>
  /\ rdPlen = 0
  /\ rdErr = "nil"
  /\ HsIdle
  /\ CtlIdle
  /\ MxIdle
  /\ BmIdle
  /\ UpIdle
  /\ DlIdle
  /\ MkIdle
  /\ HpIdle
  /\ AdIdle
  /\ AeIdle
  /\ KsIdle
  /\ FbIdle
  /\ BbIdle
  /\ RdIdle
  /\ RcIdle
  /\ BwIdle
  /\ DkIdle
  /\ KhIdle
  /\ PpIdle

\* snd.EnableBoost(true, false, key, iv, table.IsASCII)
BoostEnableSnd ==
  /\ ~snd.boostWrite
  /\ \E keyLen \in {15, 32} : \E ivLen \in {15, 16} : \E iv \in BoostIVs :
       snd' = EnableBoost(snd, TRUE, FALSE, keyLen, ivLen, 1, iv,
                          snd.isASCII).sc
  /\ UNCHANGED <<rcv, wire, rawSent, sndClosed, toSend, sent, nWrites,
                 received, rdPlen, rdErr>>
  /\ UNCHANGED notCodecVars

\* rcv.EnableBoost(false, true, key, iv, table.IsASCII) with the key and the
\* IV of the writer
BoostEnableRcv ==
  /\ snd.boostWrite
  /\ ~rcv.boostRead
  /\ rcv' = EnableBoost(rcv, FALSE, TRUE, 32, 16, snd.boostEnc.key,
                        snd.boostEnc.iv, rcv.isASCII).sc
  /\ UNCHANGED <<snd, wire, rawSent, sndClosed, toSend, sent, nWrites,
                 received, rdPlen, rdErr>>
  /\ UNCHANGED notCodecVars

BoostWrite == snd.boostWrite /\ AppWrite

BoostClose == snd.boostWrite /\ AppClose

BoostReadPending == rcv.boostRead /\ AppReadPending

BoostReadEnter == rcv.boostRead /\ AppReadEnter

BoostReadPass == AppReadPass

BoostReadEOF == AppReadEOF

NextBoost ==
  \/ BoostEnableSnd
  \/ BoostEnableRcv
  \/ BoostWrite
  \/ BoostClose
  \/ BoostReadPending
  \/ BoostReadEnter
  \/ BoostReadPass
  \/ BoostReadEOF

SpecBoost == InitBoost /\ [][NextBoost]_vars

\* C2: boost round trip.  With boost enabled on the writer's write side and
\* on the reader's read side under the same key, IV and mode, what Read has
\* returned is at every moment a prefix of what Write was given, Read
\* reports nothing but the end of the stream, and once the writer has
\* closed and the stream is drained (or Read has reported its end) the
\* reader has got exactly the bytes written.
BoostRoundTrip ==
  /\ IsPrefix(received, sent)
  /\ rdErr \in {"nil", "EOF"}
  /\ (sndClosed /\ wire = <<>> /\ rcv.pendingData = <<>>) => received = sent
  /\ rdErr = "EOF" => received = sent

BoostRoundTripWitness ==
  /\ sndClosed
  /\ rdErr = "EOF"
  /\ Len(sent) = 2
  /\ nWrites = 2
  /\ received = sent
  /\ Len(rawSent) > 3

(***************************************************************************)
(* ServerHandshake (apis), over httpmask.ConsumeHeader, bufio.Reader,      *)
(* sudoku.Conn in recording mode and the AEAD framer.  The AEAD framer and *)
(* protocol.ReadAddress are not part of the sources at hand: the framer is *)
(* the verbatim passthrough ("none") of the design, ReadAddress follows    *)
(* the address encoding of the design.                                     *)
(***************************************************************************)
\* bytes one Read of a transport returns, unless it returns all there is
MaxChunk == 3

\* the size of a bufio.Reader made by bufio.NewReader
bufioSize == 4096

\* the size of rawBuf, the buffer sudoku.Conn reads the transport into
IOBufferSize == 32768

\* len(handshakeBuf)
handshakeLen == 16

\* the tolerated clock skew in seconds
maxSkew == 60

\* time.Now().Unix() on the server
ServerNow == 1700000000

\* the sizes a Read of a transport that holds avail bytes may return into
\* a buffer of cap bytes
ReadSizes(avail, cap) ==
  { n \in 1..Min(avail, cap) : n <= MaxChunk \/ n = Min(avail, cap) }

\* StopRecording
StopRecording(sc) ==
  [sc EXCEPT !.recording = FALSE, !.recorder = <<>>, !.recorderNil = TRUE]

\* GetBufferedAndRecorded.  sc.reader never holds bytes: Read passes rawBuf,
\* which is as large as the reader's buffer, so bufio reads into it directly.
GetBufferedAndRecorded(sc) ==
  LET recorded == IF sc.recorderNil THEN <<>> ELSE sc.recorder
  IN IF Len(sc.reader) > 0 THEN recorded \o sc.reader ELSE recorded

RECURSIVE PutUint(_, _)
\* the big-endian encoding of n in len bytes
PutUint(n, len) ==
  IF len = 0 THEN <<>> ELSE Append(PutUint(n \div 256, len - 1), n % 256)

\* binary.BigEndian.PutUint64; an int64 is its eight bytes, big-endian
PutUint64(n) == PutUint(n, 8)

RECURSIVE SubBorrow(_, _, _, _)
\* bytes 1..i of a - b - borrow in 64-bit two's complement
SubBorrow(a, b, i, borrow) ==
  IF i = 0 THEN <<>>
  ELSE LET d == a[i] - b[i] - borrow
       IN Append(SubBorrow(a, b, i - 1, IF d < 0 THEN 1 ELSE 0),
                 (d + 256) % 256)

\* a - b on int64: the difference wraps around modulo 2^64
Sub64(a, b) == SubBorrow(a, b, 8, 0)

\* x < 0 on int64
IsNeg64(x) == x[1] >= 128

\* -x on int64
Neg64(x) == Sub64(PutUint64(0), x)

\* abs
abs(x) == IF IsNeg64(x) THEN Neg64(x) ELSE x

\* x > n on int64, for 0 <= n < 256
Gt64(x, n) ==
  /\ ~IsNeg64(x)
  /\ \/ \E i \in 1..7 : x[i] # 0
     \/ x[8] > n

\* abs(now-ts) > 60 for the timestamp field ts of the payload
SkewTooLarge(ts) == Gt64(abs(Sub64(PutUint64(ServerNow), ts)), maxSkew)

\* "POST"
MaskPOST == <<80, 79, 83, 84>>

\* WriteRandomRequestHeader, shortened to a request line, one header line
\* and the blank line: "POST /a\r\nH: b\r\n\r\n"
MaskHeader ==
  <<80, 79, 83, 84, 32, 47, 97, 13, 10, 72, 58, 32, 98, 13, 10, 13, 10>>

\* the first position from i on of c in s, 0 if there is none
IndexByte(s, c, i) ==
  LET at == { j \in i..Len(s) : s[j] = c }
  IN IF at = {} THEN 0 ELSE CHOOSE j \in at : \A k \in at : j <= k

RECURSIVE ConsumeLines(_)
\* ConsumeHeader up to its return or to the next fill of the reader.
\* st.buf is what the reader has buffered, st.consumed the buffer consumed,
\* st.lineRead tells that the request line has been read; st.res is "ok",
\* "invalid method" or "fill" (ReadSlice found no line end and fills).
ConsumeLines(st) ==
  LET i == IndexByte(st.buf, 10, 1)
  IN IF i = 0 THEN [st EXCEPT !.res = "fill"]
     ELSE LET line == Take(st.buf, i)
              nx == [buf      |-> Drop(st.buf, i),
                     consumed |-> st.consumed \o line,
                     lineRead |-> TRUE,
                     res      |-> "fill"]
          IN IF ~st.lineRead
             THEN IF Len(line) < 4 \/ Take(line, 4) # MaskPOST
                  THEN [nx EXCEPT !.res = "invalid method"]
                  ELSE ConsumeLines(nx)
             ELSE IF line = <<13, 10>> \/ line = <<10>>
                  THEN [nx EXCEPT !.res = "ok"]
                  ELSE ConsumeLines(nx)

\* ConsumeHeader on the reader as it is
HeaderState ==
  ConsumeLines([buf |-> hsBuf, consumed |-> hsConsumed,
                lineRead |-> hsLineRead, res |-> "fill"])

\* crypto.NewAEADConn: an unsupported method is an error
NewAEADConn(method) ==
  IF method \in {"none", "aes-128-gcm", "chacha20-poly1305"} THEN "nil"
  ELSE "unsupported"

\* cConn.Close(): close cascades downward, to sConn.Close, which closes
\* bConn, whose Close is rawConn's
AEADConnClose(sc) == ConnClose(sc).sc

\* protocol.ReadAddress: the length of the address whose first bytes are
\* got, as far as got tells it (-1: the address is rejected).  tag 1 is four
\* bytes, tag 3 sixteen bytes, tag 2 a length byte and a name; then the port.
AddrNeed(got) ==
  IF got = <<>> THEN 1
  ELSE CASE got[1] = 1 -> 7
         [] got[1] = 3 -> 19
         [] got[1] = 2 -> IF Len(got) < 2 THEN 2
                          ELSE IF got[2] = 0 THEN 0 - 1
                          ELSE 4 + got[2]
         [] OTHER -> 0 - 1

\* sha256(key)[:8], the second half of the payload (the server does not
\* look at it)
KeyHash == <<11, 22, 33, 44, 55, 66, 77, 88>>

\* the domain "a", port 80
TargetAddr == <<2, 1, 97, 0, 80>>

\* an address with an unknown type tag
BadTagAddr == <<9, 1, 97, 0, 80>>

\* the skews of the client's clock that are explored
Skews == {0 - maxSkew - 1, 0 - maxSkew, 0, maxSkew, maxSkew + 1}

\* the timestamp fields that are explored: the skews, the server's time with
\* the top bit set, and the smallest int64
TsFields ==
  { PutUint64(ServerNow + d) : d \in Skews }
    \cup { [PutUint64(ServerNow) EXCEPT ![1] = 128],
           <<128, 0, 0, 0, 0, 0, 0, 0>> }

\* "GET /\r\n\r\n", a probe that is no client
ProbeGET == <<71, 69, 84, 32, 47, 13, 10, 13, 10>>

\* what a peer that is no client sends: the masquerade header cut short, or
\* a request that is no POST request
Probes == { Take(MaskHeader, n) : n \in {4, 6, 12, 16} } \cup { ProbeGET }

\* the configurations of the server: DisableHTTPMask and AEADMethod
HsConfigs == { <<FALSE, "none">>, <<TRUE, "none">>, <<FALSE, "rc4">> }

\* The server has accepted the connection of a peer.  The peer is a client
\* in Dial (with or without the masquerade, the AEAD method "none", some
\* padding rate, timestamp and address) or a prober.
InitHandshake ==
  /\ \E m \in BOOLEAN : \E c \in HsConfigs :
       /\ hsCfg = [isASCII |-> m, DisableHTTPMask |-> c[1],
                   AEADMethod |-> c[2]]
       /\ \E st \in {"mask", "handshake", "probe"} : \E rate \in {0, 30} :
          \E ts \in TsFields : \E addr \in {TargetAddr, BadTagAddr} :
            /\ (st = "probe" \/ c # <<FALSE, "none">>) =>
                 rate = 0 /\ ts = PutUint64(ServerNow)
            /\ (st = "probe" \/ ts # PutUint64(ServerNow)) => addr = TargetAddr
            /\ hsPeer = [stage |-> st, sc |-> NewConn(m, rate, 0, FALSE),
                         ts |-> ts, addr |-> addr]
  /\ hsClient = <<>>
  /\ hsWire = <<>>
  /\ hsBuf = <<>>
  /\ hsConsumed = <<>>
  /\ hsLineRead = FALSE
  /\ hsConn = NewConn(TRUE, 0, 0, FALSE)
  /\ hsGot = <<>>
  /\ hsPayload = <<>>
  /\ hsPc = "accepted"
  /\ hsErr = [kind |-> "nil", HTTPHeaderData |-> <<>>, ReadData |-> <<>>]
  /\ hsRawClosed = FALSE
  /\ CodecIdle
  /\ CtlIdle
  /\ MxIdle
  /\ BmIdle
  /\ UpIdle
  /\ DlIdle
  /\ MkIdle
  /\ HpIdle
  /\ AdIdle
  /\ AeIdle
  /\ KsIdle
  /\ FbIdle
  /\ BbIdle
  /\ RdIdle
  /\ RcIdle
  /\ BwIdle
  /\ DkIdle
  /\ KhIdle
  /\ PpIdle

\* the peer writes raw bytes to the connection
HsPeerSends(raw) ==
  /\ hsClient' = hsClient \o raw
  /\ hsWire' = hsWire \o raw
  /\ UNCHANGED <<hsCfg, hsBuf, hsConsumed, hsLineRead, hsConn, hsGot,
                 hsPayload, hsPc, hsErr, hsRawClosed>>
  /\ UNCHANGED notHsVars

\* Dial: WriteRandomRequestHeader
HsPeerMask ==
  /\ hsPeer.stage = "mask"
  /\ hsPeer' = [hsPeer EXCEPT !.stage = "handshake"]
  /\ HsPeerSends(MaskHeader)

\* Dial: cConn.Write(handshake[:]), the payload of buildHandshakePayload
HsPeerHandshake ==
  /\ hsPeer.stage = "handshake"
  /\ LET w == ConnWrite(hsPeer.sc, hsPeer.ts \o KeyHash)
     IN /\ hsPeer' = [hsPeer EXCEPT !.stage = "address", !.sc = w.sc]
        /\ HsPeerSends(w.out)

\* Dial: protocol.WriteAddress(cConn, cfg.TargetAddress)
HsPeerAddress ==
  /\ hsPeer.stage = "address"
  /\ LET w == ConnWrite(hsPeer.sc, hsPeer.addr)
     IN /\ hsPeer' = [hsPeer EXCEPT !.stage = "stopped", !.sc = w.sc]
        /\ HsPeerSends(w.out)

\* a prober sends its bytes
HsPeerProbe ==
  /\ hsPeer.stage = "probe"
  /\ hsPeer' = [hsPeer EXCEPT !.stage = "stopped"]
  /\ \E raw \in Probes : HsPeerSends(raw)

\* the peer sends nothing more: it has closed, or it stays silent until the
\* deadline of the handshake
HsPeerStop ==
  /\ hsPeer.stage \in {"handshake", "address"}
  /\ hsPeer' = [hsPeer EXCEPT !.stage = "stopped"]
  /\ HsPeerSends(<<>>)

\* a read of rawConn fails: nothing is left to read and the peer sends
\* nothing more
HsRawReadFails == hsWire = <<>> /\ hsPeer.stage = "stopped"

\* ServerHandshake returns a HandshakeError: of the given kind, with the
\* given header data and read data
HsReturnError(kind, header, readData) ==
  /\ hsPc' = "failed"
  /\ hsErr' = [kind |-> kind, HTTPHeaderData |-> header, ReadData |-> readData]

\* the closure fail of ServerHandshake
HsFail(kind, sc) ==
  /\ HsReturnError(kind, hsConsumed, GetBufferedAndRecorded(sc))
  /\ hsConn' = sc

\* ServerHandshake up to its first read: the deadline, bufReader
HsBegin ==
  /\ hsPc = "accepted"
  /\ hsPc' = IF hsCfg.DisableHTTPMask THEN "wrap" ELSE "peek"
  /\ UNCHANGED <<hsCfg, hsPeer, hsClient, hsWire, hsBuf, hsConsumed, hsLineRead,
                 hsConn, hsGot, hsPayload, hsErr, hsRawClosed>>
  /\ UNCHANGED notHsVars

\* bufReader.Peek(4): one fill of the reader; with four bytes buffered Peek
\* returns and the first four bytes decide whether the mask is consumed
HsPeekFill ==
  /\ hsPc = "peek"
  /\ hsWire # <<>>
  /\ \E n \in ReadSizes(Len(hsWire), bufioSize - Len(hsBuf)) :
       LET buf == hsBuf \o Take(hsWire, n)
       IN /\ hsBuf' = buf
          /\ hsWire' = Drop(hsWire, n)
          /\ hsPc' = IF Len(buf) < 4 THEN "peek"
                     ELSE IF Take(buf, 4) = MaskPOST THEN "header"
                     ELSE "wrap"
  /\ UNCHANGED <<hsCfg, hsPeer, hsClient, hsConsumed, hsLineRead, hsConn, hsGot,
                 hsPayload, hsErr, hsRawClosed>>
  /\ UNCHANGED notHsVars

\* bufReader.Peek(4): the fill fails (the peer has closed, or the deadline
\* has passed); Peek's error is dropped and the mask is not consumed
HsPeekErr ==
  /\ hsPc = "peek"
  /\ HsRawReadFails
  /\ hsPc' = "wrap"
  /\ UNCHANGED <<hsCfg, hsPeer, hsClient, hsWire, hsBuf, hsConsumed, hsLineRead,
                 hsConn, hsGot, hsPayload, hsErr, hsRawClosed>>
  /\ UNCHANGED notHsVars

\* ConsumeHeader returns: the blank line has been read, or the request
\* line is no POST line (then ServerHandshake returns its error)
HsHeaderReturn ==
  /\ hsPc = "header"
  /\ LET st == HeaderState
     IN /\ st.res # "fill"
        /\ hsBuf' = st.buf
        /\ hsConsumed' = st.consumed
        /\ hsLineRead' = st.lineRead
        /\ IF st.res = "ok"
           THEN hsPc' = "wrap" /\ hsErr' = hsErr
           ELSE HsReturnError("http", st.consumed, <<>>)
  /\ UNCHANGED <<hsCfg, hsPeer, hsClient, hsWire, hsConn, hsGot, hsPayload,
                 hsRawClosed>>
  /\ UNCHANGED notHsVars

\* ConsumeHeader: ReadSlice finds no line end in the buffer and fills it
HsHeaderFill ==
  /\ hsPc = "header"
  /\ hsWire # <<>>
  /\ LET st == HeaderState
     IN /\ st.res = "fill"
        /\ Len(st.buf) < bufioSize
        /\ \E n \in ReadSizes(Len(hsWire), bufioSize - Len(st.buf)) :
             /\ hsBuf' = st.buf \o Take(hsWire, n)
             /\ hsWire' = Drop(hsWire, n)
        /\ hsConsumed' = st.consumed
        /\ hsLineRead' = st.lineRead
  /\ UNCHANGED <<hsCfg, hsPeer, hsClient, hsConn, hsGot, hsPayload, hsPc, hsErr,
                 hsRawClosed>>
  /\ UNCHANGED notHsVars

\* ConsumeHeader: ReadSlice fails (the fill fails, or the buffer is full of
\* a line without end).  ReadSlice hands out and drops what is buffered;
\* ConsumeHeader returns nil before the request line has been read, else
\* the lines consumed; ServerHandshake returns that as HTTPHeaderData.
HsHeaderErr ==
  /\ hsPc = "header"
  /\ LET st == HeaderState
     IN /\ st.res = "fill"
        /\ HsRawReadFails \/ Len(st.buf) >= bufioSize
        /\ hsBuf' = <<>>
        /\ hsConsumed' = st.consumed
        /\ hsLineRead' = st.lineRead
        /\ HsReturnError("http",
                         IF st.lineRead THEN st.consumed ELSE <<>>, <<>>)
  /\ UNCHANGED <<hsCfg, hsPeer, hsClient, hsWire, hsConn, hsGot, hsPayload,
                 hsRawClosed>>
  /\ UNCHANGED notHsVars

\* bConn, sConn in recording mode, cConn
HsWrap ==
  /\ hsPc = "wrap"
  /\ LET sConn == NewConn(hsCfg.isASCII, 0, 0, TRUE)
     IN IF NewAEADConn(hsCfg.AEADMethod) = "nil"
        THEN /\ hsConn' = sConn
             /\ hsPc' = "handshake"
             /\ hsErr' = hsErr
        ELSE HsFail("crypto", sConn)
  /\ UNCHANGED <<hsCfg, hsPeer, hsClient, hsWire, hsBuf, hsConsumed, hsLineRead,
                 hsGot, hsPayload, hsRawClosed>>
  /\ UNCHANGED notHsVars

\* a read of the tunnel is in progress: io.ReadFull(cConn, handshakeBuf) or
\* protocol.ReadAddress(cConn)
HsReading == hsPc \in {"handshake", "address"}

\* len(p) of the Read call in progress
HsPlen ==
  IF hsPc = "handshake" THEN handshakeLen - Len(hsGot)
  ELSE AddrNeed(hsGot) - Len(hsGot)

\* ServerHandshake after a Read of sConn (through cConn) gave r: the read
\* in progress fails, goes on, or is complete; a complete payload is
\* checked, a complete address ends the handshake
HsAfterRead(r) ==
  LET got == hsGot \o r.data
  IN IF r.err # "nil"
     THEN /\ hsRawClosed' = TRUE
          /\ HsFail(hsPc, AEADConnClose(r.sc))
          /\ hsGot' = got
          /\ hsPayload' = hsPayload
     ELSE IF hsPc = "handshake"
     THEN IF Len(got) < handshakeLen
          THEN /\ hsConn' = r.sc
               /\ hsGot' = got
               /\ UNCHANGED <<hsPayload, hsPc, hsErr, hsRawClosed>>
          ELSE IF SkewTooLarge(Take(got, 8))
          THEN /\ hsRawClosed' = TRUE
               /\ HsFail("timestamp", AEADConnClose(r.sc))
               /\ hsGot' = got
               /\ hsPayload' = got
          ELSE /\ hsConn' = StopRecording(r.sc)
               /\ hsPc' = "address"
               /\ hsGot' = <<>>
               /\ hsPayload' = got
               /\ UNCHANGED <<hsErr, hsRawClosed>>
     ELSE IF AddrNeed(got) < 0
     THEN /\ hsRawClosed' = TRUE
          /\ HsFail("address", AEADConnClose(r.sc))
          /\ hsGot' = got
          /\ hsPayload' = hsPayload
     ELSE /\ hsConn' = r.sc
          /\ hsGot' = got
          /\ hsPc' = IF Len(got) = AddrNeed(got) THEN "ok" ELSE "address"
          /\ UNCHANGED <<hsPayload, hsErr, hsRawClosed>>

\* sConn.Read with decoded bytes pending
HsReadPending ==
  /\ HsReading
  /\ hsConn.pendingData # <<>>
  /\ HsAfterRead(CopyOut(hsConn, HsPlen) @@ [ret |-> TRUE])
  /\ UNCHANGED <<hsCfg, hsPeer, hsClient, hsWire, hsBuf, hsConsumed, hsLineRead>>
  /\ UNCHANGED notHsVars

\* sConn.Read, one pass of its loop: bConn.Read hands out what bufReader
\* has buffered
HsReadBuffered ==
  /\ HsReading
  /\ hsConn.pendingData = <<>>
  /\ hsBuf # <<>>
  /\ HsAfterRead(ReadPass(hsConn, HsPlen, hsBuf, "nil"))
  /\ hsBuf' = <<>>
  /\ UNCHANGED <<hsCfg, hsPeer, hsClient, hsWire, hsConsumed, hsLineRead>>
  /\ UNCHANGED notHsVars

\* sConn.Read, one pass of its loop: bufReader is empty and reads rawConn
\* into rawBuf
HsReadWire ==
  /\ HsReading
  /\ hsConn.pendingData = <<>>
  /\ hsBuf = <<>>
  /\ hsWire # <<>>
  /\ \E n \in ReadSizes(Len(hsWire), IOBufferSize) :
       /\ HsAfterRead(ReadPass(hsConn, HsPlen, Take(hsWire, n), "nil"))
       /\ hsWire' = Drop(hsWire, n)
  /\ UNCHANGED <<hsCfg, hsPeer, hsClient, hsBuf, hsConsumed, hsLineRead>>
  /\ UNCHANGED notHsVars

\* sConn.Read, one pass of its loop: the read of rawConn fails (the peer
\* has closed, or the deadline has passed)
HsReadErr ==
  /\ HsReading
  /\ hsConn.pendingData = <<>>
  /\ hsBuf = <<>>
  /\ HsRawReadFails
  /\ HsAfterRead(ReadPass(hsConn, HsPlen, <<>>, "EOF"))
  /\ UNCHANGED <<hsCfg, hsPeer, hsClient, hsWire, hsBuf, hsConsumed, hsLineRead>>
  /\ UNCHANGED notHsVars

NextHandshake ==
  \/ HsPeerMask
  \/ HsPeerHandshake
  \/ HsPeerAddress
  \/ HsPeerProbe
  \/ HsPeerStop
  \/ HsBegin
  \/ HsPeekFill
  \/ HsPeekErr
  \/ HsHeaderReturn
  \/ HsHeaderFill
  \/ HsHeaderErr
  \/ HsWrap
  \/ HsReadPending
  \/ HsReadBuffered
  \/ HsReadWire
  \/ HsReadErr

SpecHandshake == InitHandshake /\ [][NextHandshake]_vars

\* the raw bytes ServerHandshake has read from rawConn
HsRawRead == Take(hsClient, Len(hsClient) - Len(hsWire))

\* ServerHandshake has returned a HandshakeError of the given kind
HsFailed(kind) == hsPc = "failed" /\ hsErr.kind = kind

\* C3: byte-accurate replay on a timestamp failure.  When ServerHandshake
\* has failed on the timestamp, HTTPHeaderData followed by ReadData followed
\* by the bytes still unread on the raw transport is the byte sequence the
\* client sent.
TimestampFailureReplay ==
  HsFailed("timestamp") =>
    hsErr.HTTPHeaderData \o hsErr.ReadData \o hsWire = hsClient

TimestampFailureReplayWitness ==
  /\ HsFailed("timestamp")
  /\ hsErr.HTTPHeaderData = MaskHeader
  /\ Len(hsErr.ReadData) > 4 * handshakeLen
  /\ hsWire # <<>>
  /\ hsErr.HTTPHeaderData \o hsErr.ReadData \o hsWire = hsClient

\* C4: whenever ServerHandshake has returned a HandshakeError, it has not
\* closed the RawConn the error carries.
RawConnOpenOnError == hsPc = "failed" => ~hsRawClosed

\* C5: replay on a masquerade failure.  When ConsumeHeader has failed,
\* HTTPHeaderData followed by the bytes still readable from RawConn is the
\* byte sequence the client sent.
MaskFailureReplay ==
  HsFailed("http") => hsErr.HTTPHeaderData \o hsWire = hsClient

\* C6: whatever the stage of the failure, HTTPHeaderData and ReadData
\* together hold every byte read from the raw connection.
ErrorHoldsAllRead ==
  hsPc = "failed" => hsErr.HTTPHeaderData \o hsErr.ReadData = HsRawRead

\* the timestamp field differs from the server's clock by at most 60 seconds
WithinSkew(ts) ==
  \E d \in (0 - maxSkew)..maxSkew : ts = PutUint64(ServerNow + d)

\* the handshake payload has been accepted
HsAccepted == hsPc \in {"address", "ok"} \/ HsFailed("address")

\* C7: a handshake payload is accepted only if its timestamp field differs
\* from the server's clock by at most 60 seconds.
TimestampWindow == HsAccepted => WithinSkew(Take(hsPayload, 8))

(***************************************************************************)
(* ControlConn (internal/tunnel/control_conn.go): control frames mixed     *)
(* into the data stream.                                                   *)
(***************************************************************************)
\* calls of Write and SendControl on the sending side
MaxSends == 2

controlVersion == 1

hmacLen == 16

readChunkSize == 32768

ControlCmdBoostRequest == 1

ControlCmdBoostAck == 2

controlMagic == <<247, 72, 66, 67>>

\* len(controlMagic)+1+1+2: the frame up to its payload
frameHeaderLen == Len(controlMagic) + 1 + 1 + 2

\* the HMAC key both sides hold
ControlKey == 5

RECURSIVE WeightedSum(_, _)
\* the sum of i * s[i] over the bytes of s from position i on
WeightedSum(s, i) ==
  IF i > Len(s) THEN 0 ELSE i * s[i] + WeightedSum(s, i + 1)

\* hmac.New(sha256.New, key) over body, cut to hmacLen bytes.  The hash is
\* the library's; here a tag is a function of the key and of every byte of
\* body with its position.
HMAC(key, body) ==
  CHOOSE tag \in
    { [i \in 1..hmacLen |-> (sum + i * 13) % 256] :
        sum \in { key * 31 + WeightedSum(body, 1) * 7 + Len(body) * 3 } } :
    TRUE

\* verifyMAC
verifyMAC(key, body, macBytes) == HMAC(key, body) = macBytes

\* the frame SendControl writes, with the given version byte
FrameOf(version, cmd, payload) ==
  LET lenField == PutUint(Len(payload), 2)
      header == controlMagic \o <<version, cmd>> \o lenField \o payload
  IN header \o HMAC(ControlKey, Drop(header, Len(controlMagic)))

\* bytes.Index(s, sep): the 0-based position of the first sep in s, or -1
Index(s, sep) ==
  LET hits == { i \in 1..(Len(s) - Len(sep) + 1) :
                  SubSeq(s, i, i + Len(sep) - 1) = sep }
  IN IF hits = {} THEN 0 - 1
     ELSE (CHOOSE i \in hits : \A j \in hits : i <= j) - 1

\* (mutant) the data replaces what is buffered
appendDataOverwrites(dataBuf, b) == IF b = <<>> THEN dataBuf ELSE b

\* appendData: dataBuf after the call
appendData(dataBuf, b) == IF b = <<>> THEN dataBuf ELSE dataBuf \o b

\* c.appendData(b) on c = [readBuf, dataBuf, handled, events]: the data is
\* buffered and onData(len(b)) is called; events is the order of the calls
\* of onData and of the handler
emitData(c, b) ==
  [c EXCEPT !.dataBuf = appendData(@, b),
            !.events = IF b = <<>> THEN @
                       ELSE Append(@, [kind |-> "data", n |-> Len(b),
                                       cmd |-> 0, payload |-> <<>>])]

\* c.handler(cmd, payload)
callHandler(c, cmd, payload) ==
  [c EXCEPT !.handled = Append(@, <<cmd, payload>>),
            !.events = Append(@, [kind |-> "frame", n |-> 0,
                                  cmd |-> cmd, payload |-> payload])]

\* (mutant) the first byte of a rejected candidate is dropped
emitFirstByteDropped(c) == [c EXCEPT !.readBuf = Drop(c.readBuf, 1)]

\* processBuffer on a candidate that is no valid frame: the first byte of
\* readBuf is emitted as data
emitFirstByte(c) ==
  [emitData(c, Take(c.readBuf, 1)) EXCEPT !.readBuf = Drop(c.readBuf, 1)]

RECURSIVE processBuffer(_)
\* processBuffer on c = [readBuf, dataBuf, handled, events], handled being
\* the calls of the handler so far
processBuffer(c) ==
  LET idx == Index(c.readBuf, controlMagic)
  IN IF idx = 0 - 1
     THEN [emitData(c, c.readBuf) EXCEPT !.readBuf = <<>>]
     ELSE LET c1 == [emitData(c, Take(c.readBuf, idx)) EXCEPT
                       !.readBuf = Drop(c.readBuf, idx)]
              rb == c1.readBuf
          IN IF Len(rb) < frameHeaderLen + hmacLen THEN c1
             ELSE IF Take(rb, Len(controlMagic)) # controlMagic
             THEN processBuffer(emitFirstByte(c1))
             ELSE LET version == rb[Len(controlMagic) + 1]
                      cmd == rb[Len(controlMagic) + 2]
                      payloadLen == 256 * rb[Len(controlMagic) + 3]
                                      + rb[Len(controlMagic) + 4]
                      total == frameHeaderLen + payloadLen + hmacLen
                  IN IF Len(rb) < total THEN c1
                     ELSE LET payload == SubSeq(rb, frameHeaderLen + 1,
                                                frameHeaderLen + payloadLen)
                              macBytes == SubSeq(rb, total - hmacLen + 1, total)
                              body == SubSeq(rb, Len(controlMagic) + 1,
                                             total - hmacLen)
                          IN IF /\ version = controlVersion
                                /\ verifyMAC(ControlKey, body, macBytes)
                             THEN processBuffer(
                                    [callHandler(c1, cmd, payload) EXCEPT
                                       !.readBuf = Drop(rb, total)])
                             ELSE processBuffer(emitFirstByte(c1))

\* the frames of the boost controller, with the payload shortened
ControlFrames ==
  { <<ControlCmdBoostRequest, <<>> >>, <<ControlCmdBoostAck, <<1>> >> }

\* What Write is given: plain bytes; the first half of the magic; the magic
\* and some bytes; the header of a frame whose payload never comes; a frame
\* of another version; one whose payload is the magic; a frame with a wrong
\* HMAC.
DataPieces ==
  { <<5>>, <<6, 7>>,
    Take(controlMagic, 2),
    controlMagic \o <<8>>,
    controlMagic \o <<controlVersion, ControlCmdBoostRequest, 0, 9>>,
    FrameOf(controlVersion + 1, ControlCmdBoostRequest, <<>>),
    FrameOf(controlVersion + 1, ControlCmdBoostAck, controlMagic),
    [FrameOf(controlVersion, ControlCmdBoostAck, <<>>) EXCEPT
       ![frameHeaderLen + hmacLen] = (@ + 1) % 256] }

InitControl ==
  /\ ctlIn = <<>>
  /\ ctlWire = <<>>
  /\ ctlClosed = FALSE
  /\ ctlFrames = <<>>
  /\ ctlData = <<>>
  /\ ctlReadBuf = <<>>
  /\ ctlDataBuf = <<>>
  /\ ctlHandled = <<>>
  /\ ctlOut = <<>>
  /\ ctlErr = "nil"
  /\ ctlSends = 0
  /\ CodecIdle
  /\ HsIdle
  /\ MxIdle
  /\ BmIdle
  /\ UpIdle
  /\ DlIdle
  /\ MkIdle
  /\ HpIdle
  /\ AdIdle
  /\ AeIdle
  /\ KsIdle
  /\ FbIdle
  /\ BbIdle
  /\ RdIdle
  /\ RcIdle
  /\ BwIdle
  /\ DkIdle
  /\ KhIdle
  /\ PpIdle

\* Write(p) on the sending side: the bytes go to the connection as they are
CtlWrite ==
  /\ ~ctlClosed
  /\ ctlSends < MaxSends
  /\ \E p \in DataPieces :
       /\ ctlIn' = ctlIn \o p
       /\ ctlWire' = ctlWire \o p
       /\ ctlData' = ctlData \o p
  /\ ctlSends' = ctlSends + 1
  /\ UNCHANGED <<ctlClosed, ctlFrames, ctlReadBuf, ctlDataBuf, ctlHandled,
                 ctlOut, ctlErr>>
  /\ UNCHANGED notCtlVars

\* SendControl(cmd, payload) on the sending side
CtlSendControl ==
  /\ ~ctlClosed
  /\ ctlSends < MaxSends
  /\ \E f \in ControlFrames :
       LET header == FrameOf(controlVersion, f[1], f[2])
       IN /\ ctlIn' = ctlIn \o header
          /\ ctlWire' = ctlWire \o header
          /\ ctlFrames' = Append(ctlFrames, f)
  /\ ctlSends' = ctlSends + 1
  /\ UNCHANGED <<ctlClosed, ctlData, ctlReadBuf, ctlDataBuf, ctlHandled,
                 ctlOut, ctlErr>>
  /\ UNCHANGED notCtlVars

\* the sending side closes the connection
CtlClose ==
  /\ ~ctlClosed
  /\ ctlClosed' = TRUE
  /\ UNCHANGED <<ctlIn, ctlWire, ctlFrames, ctlData, ctlReadBuf, ctlDataBuf,
                 ctlHandled, ctlOut, ctlErr, ctlSends>>
  /\ UNCHANGED notCtlVars

\* the end of Read: copy(p, dataBuf) for a caller's buffer of plen bytes
CtlCopyOut(dataBuf, plen) ==
  LET n == Min(plen, Len(dataBuf))
  IN /\ ctlOut' = ctlOut \o Take(dataBuf, n)
     /\ ctlDataBuf' = Drop(dataBuf, n)

\* Read(p) with data left over from an earlier call: the loop is not entered
CtlReadBuffered ==
  /\ ctlErr = "nil"
  /\ ctlDataBuf # <<>>
  /\ \E plen \in 1..MaxBuf : CtlCopyOut(ctlDataBuf, plen)
  /\ UNCHANGED <<ctlIn, ctlWire, ctlClosed, ctlFrames, ctlData, ctlReadBuf,
                 ctlHandled, ctlErr, ctlSends>>
  /\ UNCHANGED notCtlVars

\* One turn of the loop of Read(p) in which Conn.Read returns n > 0 bytes:
\* they are appended to readBuf and processBuffer runs.  With data to return
\* the loop ends and Read copies out; with none, Read goes on to the next
\* Conn.Read.
CtlReadChunk ==
  /\ ctlErr = "nil"
  /\ ctlDataBuf = <<>>
  /\ ctlWire # <<>>
  /\ \E n \in ReadSizes(Len(ctlWire), readChunkSize) :
       LET c == processBuffer([readBuf |-> ctlReadBuf \o Take(ctlWire, n),
                               dataBuf |-> ctlDataBuf,
                               handled |-> ctlHandled,
                               events |-> <<>>])
       IN /\ ctlWire' = Drop(ctlWire, n)
          /\ ctlReadBuf' = c.readBuf
          /\ ctlHandled' = c.handled
          /\ IF c.dataBuf # <<>>
             THEN \E plen \in 1..MaxBuf : CtlCopyOut(c.dataBuf, plen)
             ELSE /\ ctlDataBuf' = c.dataBuf
                  /\ ctlOut' = ctlOut
  /\ UNCHANGED <<ctlIn, ctlClosed, ctlFrames, ctlData, ctlErr, ctlSends>>
  /\ UNCHANGED notCtlVars

\* The turn of the loop in which Conn.Read returns (0, err), the connection
\* being closed and drained: dataBuf is empty, Read returns (0, err).
CtlReadErr ==
  /\ ctlErr = "nil"
  /\ ctlDataBuf = <<>>
  /\ ctlWire = <<>>
  /\ ctlClosed
  /\ ctlErr' = "EOF"
  /\ UNCHANGED <<ctlIn, ctlWire, ctlClosed, ctlFrames, ctlData, ctlReadBuf,
                 ctlDataBuf, ctlHandled, ctlOut, ctlSends>>
  /\ UNCHANGED notCtlVars

NextControl ==
  \/ CtlWrite
  \/ CtlSendControl
  \/ CtlClose
  \/ CtlReadBuffered
  \/ CtlReadChunk
  \/ CtlReadErr

SpecControl == InitControl /\ [][NextControl]_vars

\* a frame SendControl would write and the receiver accept starts at the
\* 1-based position i of s
ValidFrameAt(s, i) ==
  /\ i + frameHeaderLen + hmacLen - 1 <= Len(s)
  /\ SubSeq(s, i, i + Len(controlMagic) - 1) = controlMagic
  /\ s[i + Len(controlMagic)] = controlVersion
  /\ LET payloadLen == 256 * s[i + Len(controlMagic) + 2]
                         + s[i + Len(controlMagic) + 3]
         total == frameHeaderLen + payloadLen + hmacLen
     IN /\ i + total - 1 <= Len(s)
        /\ verifyMAC(ControlKey,
                     SubSeq(s, i + Len(controlMagic), i + total - hmacLen - 1),
                     SubSeq(s, i + total - hmacLen, i + total - 1))

NoValidFrame(s) == \A i \in 1..Len(s) : ~ValidFrameAt(s, i)

\* all that was sent has been taken from the connection and handed on
CtlDrained == ctlWire = <<>> /\ ctlReadBuf = <<>> /\ ctlDataBuf = <<>>

\* C8: Whatever the chunks in which the stream arrives, a split inside the
\* magic included, the handler is called once for each frame SendControl
\* wrote and in their order, and Read returns the bytes given to Write: at
\* every moment a prefix of each, and all of them once everything sent has
\* been read and handed on.
ControlFrameDelivery ==
  /\ IsPrefix(ctlHandled, ctlFrames)
  /\ IsPrefix(ctlOut, ctlData)
  /\ CtlDrained => ctlHandled = ctlFrames /\ ctlOut = ctlData

\* C9: When the incoming stream holds no valid control frame, Read returns
\* its bytes unchanged and in order, the magic, frames of another version
\* and frames with a wrong HMAC included: what Read has returned is a prefix
\* of the stream, and the rest is in the buffers and on the connection.
DataTransparency ==
  NoValidFrame(ctlIn) =>
    /\ IsPrefix(ctlOut, ctlIn)
    /\ ctlOut \o ctlDataBuf \o ctlReadBuf \o ctlWire = ctlIn

\* A frame with a wrong HMAC, after bytes that hold the magic, has been
\* returned by Read whole.
DataTransparencyWitness ==
  /\ NoValidFrame(ctlIn)
  /\ Len(ctlIn) > frameHeaderLen + hmacLen
  /\ Index(ctlIn, controlMagic) = 0
  /\ Index(Drop(ctlIn, 1), controlMagic) > 0
  /\ ctlOut = ctlIn
  /\ ctlHandled = <<>>

\* C10: A Read that returns an error comes after Read has returned every
\* byte of a stream that holds no valid control frame: bytes held back
\* after the magic are handed over before the error.
HeldBytesBeforeError ==
  (ctlErr # "nil" /\ NoValidFrame(ctlIn)) => ctlOut = ctlIn

\* readBuf starts with the magic and holds a whole candidate frame
CompleteCandidate(s) ==
  /\ Len(s) >= frameHeaderLen + hmacLen
  /\ Take(s, Len(controlMagic)) = controlMagic
  /\ Len(s) >= frameHeaderLen + hmacLen
                 + 256 * s[Len(controlMagic) + 3] + s[Len(controlMagic) + 4]

\* the stream sent starts with a whole candidate frame that is no valid
\* frame: its version is not 1 or its HMAC does not verify
StartsWithRejected(s) == CompleteCandidate(s) /\ ~ValidFrameAt(s, 1)

\* the length of the candidate frame at the front of s, by its length field
CandidateLen(s) ==
  frameHeaderLen + hmacLen
    + 256 * s[Len(controlMagic) + 3] + s[Len(controlMagic) + 4]

\* what has been taken from the connection
CtlPulled == ctlOut \o ctlDataBuf \o ctlReadBuf

\* what has been emitted as data
CtlEmitted == ctlOut \o ctlDataBuf

MaxCalls == 3

\* what the threads give to Write
MxPayloads == { <<5, 6>>, <<7, 8, 9>> }

InitMutex ==
  /\ MxIdle
  /\ BmIdle
  /\ UpIdle
  /\ CodecIdle
  /\ HsIdle
  /\ CtlIdle
  /\ DlIdle
  /\ MkIdle
  /\ HpIdle
  /\ AdIdle
  /\ AeIdle
  /\ KsIdle
  /\ FbIdle
  /\ BbIdle
  /\ RdIdle
  /\ RcIdle
  /\ BwIdle
  /\ DkIdle
  /\ KhIdle
  /\ PpIdle

\* a thread enters Write(p): next it takes the mutex
MxCallWrite(t) ==
  /\ mxThreads[t].pc = "idle"
  /\ Len(mxCalls) < MaxCalls
  /\ \E p \in MxPayloads :
       /\ mxCalls' = Append(mxCalls, [frame |-> FALSE, bytes |-> p])
       /\ mxThreads' = [mxThreads EXCEPT ![t] =
            [pc |-> "lock", call |-> Len(mxCalls) + 1, buf |-> p]]
  /\ UNCHANGED <<mxMu, mxWire>>
  /\ UNCHANGED notMxVars

\* a thread enters SendControl(cmd, payload): the frame is built, next it
\* takes the mutex
MxCallSendControl(t) ==
  /\ mxThreads[t].pc = "idle"
  /\ Len(mxCalls) < MaxCalls
  /\ \E f \in ControlFrames :
       LET header == FrameOf(controlVersion, f[1], f[2])
       IN /\ mxCalls' = Append(mxCalls, [frame |-> TRUE, bytes |-> header])
          /\ mxThreads' = [mxThreads EXCEPT ![t] =
               [pc |-> "lock", call |-> Len(mxCalls) + 1, buf |-> header]]
  /\ UNCHANGED <<mxMu, mxWire>>
  /\ UNCHANGED notMxVars

\* (mutant) the thread goes on without the mutex being free
MxLockNoWait(t) ==
  /\ mxThreads[t].pc = "lock"
  /\ mxMu' = t
  /\ mxThreads' = [mxThreads EXCEPT ![t].pc = "write"]
  /\ UNCHANGED <<mxWire, mxCalls>>
  /\ UNCHANGED notMxVars

\* c.wMu.Lock()
MxLock(t) ==
  /\ mxThreads[t].pc = "lock"
  /\ mxMu = "none"
  /\ mxMu' = t
  /\ mxThreads' = [mxThreads EXCEPT ![t].pc = "write"]
  /\ UNCHANGED <<mxWire, mxCalls>>
  /\ UNCHANGED notMxVars

\* c.Conn.Write: the connection below takes the next bytes of the call
MxConnWrite(t) ==
  /\ mxThreads[t].pc = "write"
  /\ mxThreads[t].buf # <<>>
  /\ \E n \in ReadSizes(Len(mxThreads[t].buf), Len(mxThreads[t].buf)) :
       /\ mxWire' = mxWire \o
            [i \in 1..n |-> <<mxThreads[t].buf[i], mxThreads[t].call>>]
       /\ mxThreads' = [mxThreads EXCEPT ![t].buf = Drop(@, n)]
  /\ UNCHANGED <<mxMu, mxCalls>>
  /\ UNCHANGED notMxVars

\* c.Conn.Write has returned: the deferred c.wMu.Unlock(), and the return
MxUnlock(t) ==
  /\ mxThreads[t].pc = "write"
  /\ mxThreads[t].buf = <<>>
  /\ mxMu' = "none"
  /\ mxThreads' = [mxThreads EXCEPT ![t] =
       [pc |-> "idle", call |-> 0, buf |-> <<>>]]
  /\ UNCHANGED <<mxWire, mxCalls>>
  /\ UNCHANGED notMxVars

NextMutex ==
  \E t \in Threads :
    \/ MxCallWrite(t)
    \/ MxCallSendControl(t)
    \/ MxLock(t)
    \/ MxConnWrite(t)
    \/ MxUnlock(t)

SpecMutex == InitMutex /\ [][NextMutex]_vars

\* the positions of mxWire that hold bytes of call c
MxPositions(c) == { i \in 1..Len(mxWire) : mxWire[i][2] = c }

\* C12: For every interleaving of the threads, the bytes of each control
\* frame and of each user Write are on the connection below in one piece:
\* no byte of another call lies between two bytes of one call, and the bytes
\* of a call are the first bytes of what it was given, in order.
WriteAtomicity ==
  \A c \in 1..Len(mxCalls) :
    LET pos == MxPositions(c)
    IN /\ \A i \in pos : \A j \in pos : \A k \in i..j : k \in pos
       /\ pos # {} =>
            LET first == CHOOSE i \in pos : \A j \in pos : i <= j
            IN \A i \in pos : mxWire[i][1] = mxCalls[c].bytes[i - first + 1]

\* One call is whole on the connection, a thread is in the middle of the
\* Conn.Write of a call of the other kind (a frame after a user Write, or a
\* user Write after a frame), and the other thread waits for the mutex.
WriteAtomicityWitness ==
  \E c \in 1..Len(mxCalls) : \E t \in Threads : \E u \in Threads :
    /\ Cardinality(MxPositions(c)) = Len(mxCalls[c].bytes)
    /\ mxThreads[t].pc = "write"
    /\ mxThreads[t].buf # <<>>
    /\ MxPositions(mxThreads[t].call) # {}
    /\ mxCalls[mxThreads[t].call].frame # mxCalls[c].frame
    /\ mxThreads[u].pc = "lock"

(***************************************************************************)
(* BandwidthMonitor (part_007)                                             *)
(***************************************************************************)
\* the largest n given to Add
MaxAdd == 3

\* the clock stops here
MaxTime == 4

\* calls of Add
MaxAdds == 5

RECURSIVE TrimCount(_, _, _)
\* the loop of Add that trims stale samples: how many samples from
\* position trim on are before the cutoff
TrimCount(window, cutoff, trim) ==
  IF trim <= Len(window) /\ window[trim].t < cutoff
  THEN TrimCount(window, cutoff, trim + 1)
  ELSE trim - 1

RECURSIVE SumLen(_, _)
\* the lengths of the first k samples of the window
SumLen(window, k) ==
  IF k = 0 THEN 0 ELSE window[k].len + SumLen(window, k - 1)

\* (mutant) Add without the test of triggered
AddFiresAgain(m, n, now) ==
  IF n <= 0 THEN [m |-> m, ret |-> FALSE]
  ELSE LET window == Append(m.window, [t |-> now, len |-> n])
           trim == TrimCount(window, now - m.windowDur, 1)
           m1 == [m EXCEPT !.window = Drop(window, trim),
                           !.total = m.total + n - SumLen(window, trim)]
       IN IF m1.total >= m1.threshold
          THEN IF m1.pendingTick
               THEN [m |-> [m1 EXCEPT !.triggered = TRUE], ret |-> TRUE]
               ELSE [m |-> [m1 EXCEPT !.pendingTick = TRUE], ret |-> FALSE]
          ELSE [m |-> [m1 EXCEPT !.pendingTick = FALSE], ret |-> FALSE]

\* BandwidthMonitor.Add(n) at time now: the monitor after the call and what
\* the call returns
Add(m, n, now) ==
  IF n <= 0 THEN [m |-> m, ret |-> FALSE]
  ELSE LET window == Append(m.window, [t |-> now, len |-> n])
           trim == TrimCount(window, now - m.windowDur, 1)
           m1 == [m EXCEPT !.window = Drop(window, trim),
                           !.total = m.total + n - SumLen(window, trim)]
       IN IF m1.triggered THEN [m |-> m1, ret |-> FALSE]
          ELSE IF m1.total >= m1.threshold
          THEN IF m1.pendingTick
               THEN [m |-> [m1 EXCEPT !.triggered = TRUE], ret |-> TRUE]
               ELSE [m |-> [m1 EXCEPT !.pendingTick = TRUE], ret |-> FALSE]
          ELSE [m |-> [m1 EXCEPT !.pendingTick = FALSE], ret |-> FALSE]

InitMonitor ==
  /\ BmIdle
  /\ UpIdle
  /\ CodecIdle
  /\ HsIdle
  /\ CtlIdle
  /\ MxIdle
  /\ DlIdle
  /\ MkIdle
  /\ HpIdle
  /\ AdIdle
  /\ AeIdle
  /\ KsIdle
  /\ FbIdle
  /\ BbIdle
  /\ RdIdle
  /\ RcIdle
  /\ BwIdle
  /\ DkIdle
  /\ KhIdle
  /\ PpIdle

\* a call of Add(n)
BmAdd ==
  /\ bmCalls < MaxAdds
  /\ \E n \in (0 - 1)..MaxAdd :
       LET r == Add(bmMonitor, n, bmNow)
       IN /\ bmMonitor' = r.m
          /\ bmLast' = [n |-> n, ret |-> r.ret,
                        before |-> bmMonitor.triggered,
                        prevTotal |-> IF bmMonitor.window = <<>> THEN 0 - 1
                                      ELSE bmMonitor.total]
          /\ bmFired' = bmFired + (IF r.ret THEN 1 ELSE 0)
  /\ bmCalls' = bmCalls + 1
  /\ UNCHANGED bmNow
  /\ UNCHANGED notBmVars

\* time passes
BmTick ==
  /\ bmNow < MaxTime
  /\ bmNow' = bmNow + 1
  /\ UNCHANGED <<bmMonitor, bmCalls, bmLast, bmFired>>
  /\ UNCHANGED notBmVars

NextMonitor == BmAdd \/ BmTick

SpecMonitor == InitMonitor /\ [][NextMonitor]_vars

\* C13: Over any sequence of calls, Add returns true at most once; a call
\* made after Add has returned true returns false.
FiresAtMostOnce ==
  /\ bmFired <= 1
  /\ (bmCalls > 0 /\ bmLast.before) => ~bmLast.ret

\* Add has returned true, and a later call made with the total still at or
\* above the threshold has returned false.
FiresAtMostOnceWitness ==
  /\ bmFired = 1
  /\ bmLast.before
  /\ bmLast.n > 0
  /\ bmMonitor.total > bmMonitor.threshold
  /\ ~bmLast.ret

\* C14: While the monitor has not fired, Add(n) returns true exactly when
\* n > 0 and the window total exceeds the threshold after this admission
\* and exceeded it after the admission before.
TwoConsecutiveAdmissions ==
  (bmCalls > 0 /\ ~bmLast.before) =>
    (bmLast.ret <=> /\ bmLast.n > 0
                    /\ bmMonitor.total > bmMonitor.threshold
                    /\ bmLast.prevTotal > bmMonitor.threshold)

(***************************************************************************)
(* The boost controller of the client: wrapAPIBoost (part_002 240-295)     *)
(***************************************************************************)
\* pieces sent to the client's ControlConn
MaxUpSteps == 3

\* writes of the client's application
MaxUpWrites == 1

\* the threshold of the client's monitor, in bytes, and its window, in ticks
UpThreshold == 3

UpWindowDur == 1

\* the client's clock stops here
MaxUpTime == 2

\* aesKey, DeriveBoostAESKey(cfg.Key), as the number that keys the stream
ClientAESKey == 1

\* the 16 bytes rand.Read gives the client
FreshIV == [i \in 1..16 |-> 16 + i]

\* another IV
OtherIV == [i \in 1..16 |-> 200 - i]

\* iv[:16] as the number that starts the stream
IvValue(iv) == WeightedSum(Take(iv, 16), 1) % 256

\* (mutant) the handler enables boost in both directions
handlerBoostsBoth(st, cmd, payload) ==
  IF cmd # ControlCmdBoostAck \/ st.activated THEN st
  ELSE IF Len(payload) < 17 THEN st
  ELSE [st EXCEPT !.cli = EnableBoost(st.cli, TRUE, TRUE, 32, 16, ClientAESKey,
                                      IvValue(Drop(payload, 1)),
                                      payload[1] = 0).sc,
                  !.activated = TRUE]

\* (mutant) the handler without the test of activated
handlerAgain(st, cmd, payload) ==
  IF cmd # ControlCmdBoostAck THEN st
  ELSE IF Len(payload) < 17 THEN st
  ELSE [st EXCEPT !.cli = EnableBoost(st.cli, FALSE, TRUE, 32, 16,
                                      ClientAESKey, IvValue(Drop(payload, 1)),
                                      payload[1] = 0).sc,
                  !.activated = TRUE]

\* the handler of wrapAPIBoost on st = [cli, requested, activated, monitor,
\* up, reqs]
handler(st, cmd, payload) ==
  IF cmd # ControlCmdBoostAck \/ st.activated THEN st
  ELSE IF Len(payload) < 17 THEN st
  ELSE LET targetASCII == payload[1] = 0
           iv == Drop(payload, 1)
       IN IF Len(iv) < 16 THEN st
          ELSE LET r == EnableBoost(st.cli, FALSE, TRUE, 32, 16, ClientAESKey,
                                    IvValue(Take(iv, 16)), targetASCII)
               IN IF r.err # "nil" THEN st
                  ELSE [st EXCEPT !.cli = r.sc, !.activated = TRUE]

\* the part of dataCb after the monitor has fired: the IV, the payload and
\* SendControl.  fate is "ok", "rand" (rand.Read fails) or "send" (the
\* write of SendControl fails, after the codec has encoded the frame).
sendRequest(st, fate) ==
  IF fate = "rand" THEN st
  ELSE LET modeByte == IF st.cli.isASCII THEN 0 ELSE 1
           payload == <<modeByte>> \o FreshIV
           w == ConnWrite(st.cli,
                          FrameOf(controlVersion, ControlCmdBoostRequest,
                                  payload))
           call == [activated |-> st.activated, requested |-> st.requested,
                    ok |-> fate = "ok"]
       IN IF fate = "ok"
          THEN [st EXCEPT !.cli = w.sc, !.up = @ \o w.out,
                          !.requested = TRUE, !.reqs = Append(@, call)]
          ELSE [st EXCEPT !.cli = w.sc, !.reqs = Append(@, call)]

\* (mutant) dataCb without the test of activated and requested
dataCbNoGuard(st, n, now, fate) ==
  LET a == Add(st.monitor, n, now)
      st1 == [st EXCEPT !.monitor = a.m]
  IN IF a.ret THEN sendRequest(st1, fate) ELSE st1

\* dataCb of wrapAPIBoost
dataCb(st, n, now, fate) ==
  LET a == Add(st.monitor, n, now)
      st1 == [st EXCEPT !.monitor = a.m]
  IN IF st1.activated \/ st1.requested THEN st1
     ELSE IF a.ret THEN sendRequest(st1, fate)
     ELSE st1

RECURSIVE RunCallbacks(_, _, _, _, _)
\* the calls of onData and of the handler that one processBuffer makes, in
\* their order
RunCallbacks(st, events, i, now, fate) ==
  IF i > Len(events) THEN st
  ELSE CHOOSE r \in
         { RunCallbacks(nx, events, i + 1, now, fate) :
             nx \in { IF events[i].kind = "data"
                      THEN dataCb(st, events[i].n, now, fate)
                      ELSE handler(st, events[i].cmd, events[i].payload) } } :
         TRUE

\* what the peer sends to the client's ControlConn: data, an ACK in either
\* mode, an ACK whose payload is a byte short, a request
FeedPieces ==
  { <<5>>, <<6, 7, 8>>,
    FrameOf(controlVersion, ControlCmdBoostAck, <<0>> \o FreshIV),
    FrameOf(controlVersion, ControlCmdBoostAck, <<1>> \o OtherIV),
    FrameOf(controlVersion, ControlCmdBoostAck, <<0>> \o Take(FreshIV, 15)),
    FrameOf(controlVersion, ControlCmdBoostRequest, <<0>> \o OtherIV) }

\* the connection Dial returns with EnableDownlinkBoost: wrapClientConn
\* (NewConn without recording), then wrapAPIBoost
InitController ==
  /\ \E m \in BOOLEAN : upCli = NewConn(m, 0, 0, FALSE)
  /\ upCtl = [readBuf |-> <<>>, dataBuf |-> <<>>]
  /\ upRequested = FALSE
  /\ upActivated = FALSE
  /\ upMonitor = NewBandwidthMonitor(UpThreshold, UpWindowDur)
  /\ upNow = 0
  /\ upSrv = NewConn(TRUE, 0, 0, FALSE)
  /\ upSrvCtl = [readBuf |-> <<>>, dataBuf |-> <<>>]
  /\ upUp = <<>>
  /\ upDown = <<>>
  /\ upFeed = <<>>
  /\ upWritten = <<>>
  /\ upRead = <<>>
  /\ upErr = "nil"
  /\ upReqs = <<>>
  /\ upFrames = <<>>
  /\ upSteps = 0
  /\ upWrote = <<>>
  /\ CodecIdle
  /\ HsIdle
  /\ CtlIdle
  /\ MxIdle
  /\ BmIdle
  /\ DlIdle
  /\ MkIdle
  /\ HpIdle
  /\ AdIdle
  /\ AeIdle
  /\ KsIdle
  /\ FbIdle
  /\ BbIdle
  /\ RdIdle
  /\ RcIdle
  /\ BwIdle
  /\ DkIdle
  /\ KhIdle
  /\ PpIdle

\* the peer sends a piece to the client
UpFeed ==
  /\ upSteps < MaxUpSteps
  /\ \E p \in FeedPieces : upFeed' = upFeed \o p
  /\ upSteps' = upSteps + 1
  /\ UNCHANGED <<upCli, upCtl, upRequested, upActivated, upMonitor, upNow,
                 upSrv, upSrvCtl, upUp, upDown, upWritten, upRead, upErr,
                 upReqs, upFrames, upWrote>>
  /\ UNCHANGED notUpVars

\* ControlConn.Read of the client, one turn of its loop: Conn.Read returns
\* chunk; processBuffer runs with the handler and dataCb of wrapAPIBoost;
\* the data is copied to the caller, whose buffer is of readChunkSize bytes
UpCtlRead(chunk, cli, fate) ==
  \E c \in { processBuffer([readBuf |-> upCtl.readBuf \o chunk,
                            dataBuf |-> upCtl.dataBuf,
                            handled |-> <<>>, events |-> <<>>]) } :
    \E st \in { RunCallbacks([cli |-> cli, requested |-> upRequested,
                              activated |-> upActivated,
                              monitor |-> upMonitor,
                              up |-> upUp, reqs |-> upReqs],
                             c.events, 1, upNow, fate) } :
      LET n == Min(readChunkSize, Len(c.dataBuf))
      IN /\ upCtl' = [readBuf |-> c.readBuf, dataBuf |-> Drop(c.dataBuf, n)]
         /\ upRead' = upRead \o Take(c.dataBuf, n)
         /\ upCli' = st.cli
         /\ upRequested' = st.requested
         /\ upActivated' = st.activated
         /\ upMonitor' = st.monitor
         /\ upUp' = st.up
         /\ upReqs' = st.reqs
         /\ upFrames' = upFrames \o c.handled

\* the client's application reads: the layers below the ControlConn hand
\* it the next bytes of the feed
UpReadFeed ==
  /\ upFeed # <<>>
  /\ \E n \in {Min(10, Len(upFeed)), Len(upFeed)} :
       \E fate \in {"ok", "rand", "send"} :
         /\ UpCtlRead(Take(upFeed, n), upCli, fate)
         /\ upFeed' = Drop(upFeed, n)
  /\ UNCHANGED <<upNow, upSrv, upSrvCtl, upDown, upWritten, upErr, upSteps,
                 upWrote>>
  /\ UNCHANGED notUpVars

\* the client's application writes: ControlConn.Write, down to Conn.Write
UpCliWrite ==
  /\ Len(upWrote) < MaxUpWrites
  /\ LET w == ConnWrite(upCli, <<9>>)
     IN /\ upCli' = w.sc
        /\ upUp' = upUp \o w.out
  /\ upWrote' = Append(upWrote, upActivated)
  /\ UNCHANGED <<upCtl, upRequested, upActivated, upMonitor, upNow, upSrv,
                 upSrvCtl, upDown, upFeed, upWritten, upRead, upErr, upReqs,
                 upFrames, upSteps>>
  /\ UNCHANGED notUpVars

\* time passes at the client
UpTick ==
  /\ upNow < MaxUpTime
  /\ upNow' = upNow + 1
  /\ UNCHANGED <<upCli, upCtl, upRequested, upActivated, upMonitor, upSrv,
                 upSrvCtl, upUp, upDown, upFeed, upWritten, upRead, upErr,
                 upReqs, upFrames, upSteps, upWrote>>
  /\ UNCHANGED notUpVars

NextController == UpFeed \/ UpReadFeed \/ UpCliWrite \/ UpTick

SpecController == InitController /\ [][NextController]_vars

\* C16: SendControl(BOOST_REQUEST) is called at most once on a connection,
\* and never with activated or requested set.
OneBoostRequest ==
  /\ Len(upReqs) <= 1
  /\ \A i \in 1..Len(upReqs) : ~upReqs[i].activated /\ ~upReqs[i].requested

\* The request has been sent, requested is set, and the monitor has been
\* fed again with the total still above the threshold.
OneBoostRequestWitness ==
  /\ Len(upReqs) = 1
  /\ upReqs[1].ok
  /\ upRequested
  /\ upMonitor.triggered
  /\ Len(upMonitor.window) >= 3
  /\ upMonitor.total > upMonitor.threshold
  /\ upUp # <<>>

\* a frame the handler acts on: BOOST_ACK with a payload of 17 bytes or more
QualifyingAck(f) == f[1] = ControlCmdBoostAck /\ Len(f[2]) >= 17

\* the frames handled so far that qualify, by their place in upFrames
QualifyingAcks == { i \in 1..Len(upFrames) : QualifyingAck(upFrames[i]) }

\* the payload of the first of them
FirstAckPayload ==
  upFrames[CHOOSE i \in QualifyingAcks : \A j \in QualifyingAcks : i <= j][2]

\* C17: Once a BOOST_ACK with a payload of at least 17 bytes has been
\* handled, the client's read side is in boost mode with the mode of payload
\* byte 0 (0 is ASCII) and a fresh stream on the 16 bytes after it, and
\* activated is set; these are the mode and IV of the first such frame,
\* whatever frames came later.  Until then, frames with another command or
\* a shorter payload have left the boost state as NewConn made it.
AckEnablesReadBoost ==
  IF QualifyingAcks # {}
  THEN /\ upActivated
       /\ upCli.boostRead
       /\ upCli.boostASCII = (FirstAckPayload[1] = 0)
       /\ upCli.boostDec =
            NewCTR(ClientAESKey, IvValue(SubSeq(FirstAckPayload, 2, 17)))
       /\ upCli.decBitBuf = 0
       /\ upCli.decBits = 0
  ELSE /\ ~upActivated
       /\ ~upCli.boostRead
       /\ ~upCli.boostASCII
       /\ upCli.boostDec = NoStream

\* An ACK a byte short was handled, then an ACK that enabled boost, then an
\* ACK with another mode and IV.
AckEnablesReadBoostWitness ==
  /\ Len(upFrames) = 3
  /\ upFrames[1] = <<ControlCmdBoostAck, <<0>> \o Take(FreshIV, 15)>>
  /\ upFrames[2] = <<ControlCmdBoostAck, <<0>> \o FreshIV>>
  /\ upFrames[3] = <<ControlCmdBoostAck, <<1>> \o OtherIV>>
  /\ IvValue(FreshIV) # IvValue(OtherIV)
  /\ upActivated
  /\ upCli.boostDec = NewCTR(ClientAESKey, IvValue(FreshIV))

\* C18: The client's write side is never in boost mode.
UplinkNeverBoosted ==
  /\ ~upCli.boostWrite
  /\ upCli.boostEnc = NoStream
  /\ upCli.encBits = 0

\* The downlink is upgraded, the request went out and the application has
\* written after the upgrade.
UplinkNeverBoostedWitness ==
  /\ upActivated
  /\ upCli.boostRead
  /\ Len(upReqs) = 1
  /\ upReqs[1].ok
  /\ \E i \in 1..Len(upWrote) : upWrote[i]

\* the client's read side is switched to boost only after its request
ActivatedImpliesRequested == upActivated => upRequested

\* the mode and IV given to EnableBoost are those of the client's
\* BOOST_REQUEST: the mode of the connection and the IV of rand.Read
EnabledAsRequested ==
  upActivated =>
    /\ upCli.boostASCII = upCli.isASCII
    /\ upCli.boostDec = NewCTR(ClientAESKey, IvValue(FreshIV))

\* C37: The client switches its read side to boost only in answer to its
\* own request: activated implies requested, and the IV and mode given to
\* EnableBoost are those of the client's BOOST_REQUEST, whatever
\* authenticated BOOST_ACK frames arrive.
BoostOnlyOnOwnRequest == ActivatedImpliesRequested /\ EnabledAsRequested

(***************************************************************************)
(* Dial (part_002 110-177) with wrapClientConn (96-108) and the keys of    *)
(* wrapAPIBoost (240-248).                                                 *)
(***************************************************************************)
\* scalars a configured key may encode
NumScalars == 2

\* cfg.Key as a string: a raw secret, the hex of a scalar, or the hex of a
\* split scalar (r, k); id names the secret, or the scalar r + k
DialKeys ==
  [form : {"raw", "scalar", "split"}, id : 1..NumScalars]

\* crypto.RecoverPublicKey: a key that decodes as a scalar, or as a split
\* scalar, gives the point scalar * G; any other key is an error
RecoverPublicKey(key) ==
  IF key.form \in {"scalar", "split"}
  THEN [err |-> "nil", point |-> key.id]
  ELSE [err |-> "invalid key", point |-> 0]

\* crypto.EncodePoint: the hex of the point, a string
EncodePoint(point) == [form |-> "point", id |-> point]

\* sha256.Sum256([]byte(seed + suffix)), kept as what it was computed from
SHA256(seed, suffix) == [hash |-> "sha256", seed |-> seed, suffix |-> suffix]

\* the key NewAEADConn derives from its seed
AEADKey(seed) == SHA256(seed, "")

DeriveControlKey(seed) == SHA256(seed, "|hb-control")

DeriveBoostAESKey(seed) == SHA256(seed, "|hb-aes")

\* buildHandshakePayload(key): the timestamp, then 8 bytes of the key's hash
buildHandshakePayload(key) == [len |-> 16, hash |-> SHA256(key, "")]

\* the seed wrapClientConn hands to NewAEADConn
wrapSeed(key) ==
  LET rec == RecoverPublicKey(key)
  IN IF rec.err = "nil" THEN EncodePoint(rec.point) ELSE key

\* a write on rawConn itself
rawWrite(what, ok) == [what |-> what, layers |-> <<>>, ok |-> ok]

\* a write on cConn: AEADConn.Write seals, sudoku.Conn.Write encodes
cConnWrite(what, ok) ==
  [what |-> what, layers |-> <<"aead", "sudoku">>, ok |-> ok]

\* Dial or DialUoT (UoT) is called with a configuration that validation
\* accepts or not
InitDial ==
  /\ dlCfg \in [Key : DialKeys, DisableHTTPMask : BOOLEAN,
                EnableDownlinkBoost : BOOLEAN,
                AEADMethod : {"none", "aes-128-gcm", "chacha20-poly1305",
                              "rc4"},
                UoT : BOOLEAN]
  /\ dlPc = "start"
  /\ dlWire = <<>>
  /\ dlConn = [raw |-> FALSE, sConn |-> FALSE, aeadKey |-> NoKey,
               ctrl |-> FALSE, controlKey |-> NoKey, aesKey |-> NoKey]
  /\ dlRet = [conn |-> "none", err |-> "nil"]
  /\ dlRawClosed = FALSE
  /\ CodecIdle
  /\ HsIdle
  /\ CtlIdle
  /\ MxIdle
  /\ BmIdle
  /\ UpIdle
  /\ MkIdle
  /\ HpIdle
  /\ AdIdle
  /\ AeIdle
  /\ KsIdle
  /\ FbIdle
  /\ BbIdle
  /\ RdIdle
  /\ RcIdle
  /\ BwIdle
  /\ DkIdle
  /\ KhIdle
  /\ PpIdle

\* (mutant) the error return with the latch already set: nothing is closed
DlFailLatched(err, haveRaw) ==
  /\ dlRet' = [conn |-> "none", err |-> err]
  /\ dlRawClosed' = FALSE
  /\ dlPc' = "done"

\* Dial returns an error; success is false, so the deferred function closes
\* rawConn if the call got as far as opening it
DlFail(err, haveRaw) ==
  /\ dlRet' = [conn |-> "none", err |-> err]
  /\ dlRawClosed' = haveRaw
  /\ dlPc' = "done"

\* validation of the configuration, ResolveWithCache and DialContext
DlConnect ==
  /\ dlPc = "start"
  /\ \E fate \in {"ok", "invalid config", "resolve server address failed",
                  "dial tcp failed"}
                   \cup (IF dlCfg.UoT THEN {"ServerAddress cannot be empty"}
                         ELSE {}) :
       IF fate = "ok"
       THEN /\ dlPc' = "mask"
            /\ dlConn' = [dlConn EXCEPT !.raw = TRUE]
            /\ UNCHANGED <<dlRet, dlRawClosed>>
       ELSE /\ DlFail(fate, FALSE)
            /\ UNCHANGED dlConn
  /\ UNCHANGED <<dlCfg, dlWire>>
  /\ UNCHANGED notDlVars

\* step 2: the HTTP mask, written on rawConn
DlWriteMask ==
  /\ dlPc = "mask"
  /\ IF dlCfg.DisableHTTPMask
     THEN /\ dlPc' = "wrap"
          /\ UNCHANGED <<dlWire, dlRet, dlRawClosed>>
     ELSE \E ok \in BOOLEAN :
            /\ dlWire' = Append(dlWire, rawWrite("mask", ok))
            /\ IF ok
               THEN /\ dlPc' = "wrap"
                    /\ UNCHANGED <<dlRet, dlRawClosed>>
               ELSE DlFail("write http mask failed", TRUE)
  /\ UNCHANGED <<dlCfg, dlConn>>
  /\ UNCHANGED notDlVars

\* step 3: wrapClientConn
DlWrap ==
  /\ dlPc = "wrap"
  /\ IF NewAEADConn(dlCfg.AEADMethod) # "nil"
     THEN /\ DlFail("setup crypto failed", TRUE)
          /\ dlConn' = [dlConn EXCEPT !.sConn = TRUE]
     ELSE /\ dlConn' = [dlConn EXCEPT !.sConn = TRUE,
                                      !.aeadKey = AEADKey(wrapSeed(dlCfg.Key))]
          /\ dlPc' = "handshake"
          /\ UNCHANGED <<dlRet, dlRawClosed>>
  /\ UNCHANGED <<dlCfg, dlWire>>
  /\ UNCHANGED notDlVars

\* step 5: the handshake payload, written on cConn
DlHandshake ==
  /\ dlPc = "handshake"
  /\ \E ok \in BOOLEAN :
       /\ dlWire' = Append(dlWire,
                           cConnWrite("handshake", ok)
                             @@ buildHandshakePayload(dlCfg.Key))
       /\ IF ok
          THEN /\ dlPc' = "address"
               /\ UNCHANGED <<dlRet, dlRawClosed>>
          ELSE DlFail("send handshake failed", TRUE)
  /\ UNCHANGED <<dlCfg, dlConn>>
  /\ UNCHANGED notDlVars

\* what follows the handshake payload: the address, or the UoT preface
afterHandshake == IF dlCfg.UoT THEN "preface" ELSE "address"

\* (mutant) the error of WriteAddress is ignored
DlAddressUnchecked ==
  /\ dlPc = "address"
  /\ \E ok \in BOOLEAN :
       /\ dlWire' = Append(dlWire, cConnWrite(afterHandshake, ok))
       /\ dlPc' = "finish"
       /\ UNCHANGED <<dlRet, dlRawClosed>>
  /\ UNCHANGED <<dlCfg, dlConn>>
  /\ UNCHANGED notDlVars

\* step 6: protocol.WriteAddress on cConn, or tunnel.WriteUoTPreface
DlAddress ==
  /\ dlPc = "address"
  /\ \E ok \in BOOLEAN :
       /\ dlWire' = Append(dlWire, cConnWrite(afterHandshake, ok))
       /\ IF ok
          THEN /\ dlPc' = "finish"
               /\ UNCHANGED <<dlRet, dlRawClosed>>
          ELSE DlFail(IF dlCfg.UoT THEN "uot preface failed"
                      ELSE "send target address failed", TRUE)
  /\ UNCHANGED <<dlCfg, dlConn>>
  /\ UNCHANGED notDlVars

\* wrapAPIBoost if the configuration asks for it, then the return
DlFinish ==
  /\ dlPc = "finish"
  /\ IF dlCfg.EnableDownlinkBoost
     THEN /\ dlConn' = [dlConn EXCEPT
                          !.ctrl = TRUE,
                          !.controlKey = DeriveControlKey(dlCfg.Key),
                          !.aesKey = DeriveBoostAESKey(dlCfg.Key)]
          /\ dlRet' = [conn |-> "ctrl", err |-> "nil"]
     ELSE /\ dlRet' = [conn |-> "cConn", err |-> "nil"]
          /\ UNCHANGED dlConn
  /\ dlPc' = "done"
  /\ UNCHANGED <<dlCfg, dlWire, dlRawClosed>>
  /\ UNCHANGED notDlVars

NextDial ==
  DlConnect \/ DlWriteMask \/ DlWrap \/ DlHandshake \/ DlAddress \/ DlFinish

SpecDial == InitDial /\ [][NextDial]_vars

\* C19: The AEAD key, the control HMAC key and the boost AES key of the
\* connection Dial builds are derived from the same effective seed, the
\* configured key after the normalization of wrapClientConn.
KeysFromEffectiveSeed ==
  /\ dlConn.aeadKey # NoKey =>
       dlConn.aeadKey = AEADKey(wrapSeed(dlCfg.Key))
  /\ dlConn.ctrl =>
       /\ dlConn.controlKey = DeriveControlKey(wrapSeed(dlCfg.Key))
       /\ dlConn.aesKey = DeriveBoostAESKey(wrapSeed(dlCfg.Key))

\* the places of the writes of one kind in dlWire
WritesOf(what) == { i \in 1..Len(dlWire) : dlWire[i].what = what }

\* C20: The mask, when enabled, is the first write and goes raw to the
\* transport; the handshake payload of 16 bytes and then the address go
\* through the AEAD and puzzle layers, in that order, each at most once;
\* Dial returns a connection only with all of them written successfully,
\* and the control multiplexer exists only with the address written.
DialWireOrder ==
  ~dlCfg.UoT =>
  /\ \A i \in WritesOf("mask") :
       i = 1 /\ dlWire[i].layers = <<>> /\ ~dlCfg.DisableHTTPMask
  /\ \A i \in 1..Len(dlWire) :
       dlWire[i].layers # <<>> =>
         /\ dlWire[i].layers = <<"aead", "sudoku">>
         /\ dlWire[i].what \in {"handshake", "address"}
         /\ ~dlCfg.DisableHTTPMask =>
              (1 \in WritesOf("mask") /\ dlWire[1].ok /\ i > 1)
  /\ \A i \in WritesOf("handshake") : dlWire[i].len = 16
  /\ \A i \in WritesOf("address") :
       \E j \in WritesOf("handshake") : j = i - 1 /\ dlWire[j].ok
  /\ Cardinality(WritesOf("handshake")) <= 1
  /\ Cardinality(WritesOf("address")) <= 1
  /\ (dlRet.conn # "none" \/ dlConn.ctrl) =>
       /\ Len(dlWire) = (IF dlCfg.DisableHTTPMask THEN 2 ELSE 3)
       /\ \A i \in 1..Len(dlWire) : dlWire[i].ok
       /\ dlWire[Len(dlWire)].what = "address"
       /\ dlRet.err = "nil"
       /\ ~dlRawClosed
  /\ dlConn.ctrl <=> (dlRet.conn = "ctrl")

\* Dial has returned a multiplexed connection after writing the mask, the
\* handshake and the address.
DialWireOrderWitness ==
  /\ ~dlCfg.UoT
  /\ dlPc = "done"
  /\ dlRet.conn = "ctrl"
  /\ dlConn.ctrl
  /\ Len(dlWire) = 3
  /\ dlWire[1] = rawWrite("mask", TRUE)
  /\ dlWire[3] = cConnWrite("address", TRUE)

(***************************************************************************)
(* The downlink upgrade end to end: the client of wrapAPIBoost, its        *)
(* sudoku.Conn, the two directions of the transport, and the server with   *)
(* the handler of section 4.6 of the design.                               *)
(***************************************************************************)
\* pieces the server's application writes
MaxSrvWrites == 3

\* what the server's application writes in one call
SrvPieces == { <<5>>, <<6, 7, 8>> }

\* The server's handler on st = [srv, down]: on a BOOST_REQUEST with mode
\* and IV it enables boost on its write side and replies BOOST_ACK with the
\* payload it got.  ackFirst tells which of the two it does first.
srvHandler(st, cmd, payload, ackFirst) ==
  IF cmd # ControlCmdBoostRequest \/ Len(payload) < 17 \/ st.srv.boostWrite
  THEN st
  ELSE LET ack == FrameOf(controlVersion, ControlCmdBoostAck, payload)
           iv == IvValue(SubSeq(payload, 2, 17))
       IN IF ackFirst
          THEN LET w == ConnWrite(st.srv, ack)
               IN [srv |-> EnableBoost(w.sc, TRUE, FALSE, 32, 16, ClientAESKey,
                                       iv, payload[1] = 0).sc,
                   down |-> st.down \o w.out]
          ELSE LET w == ConnWrite(EnableBoost(st.srv, TRUE, FALSE, 32, 16,
                                              ClientAESKey, iv,
                                              payload[1] = 0).sc, ack)
               IN [srv |-> w.sc, down |-> st.down \o w.out]

RECURSIVE RunSrvHandler(_, _, _, _)
\* the handler on the frames one processBuffer of the server accepts
RunSrvHandler(st, frames, i, ackFirst) ==
  IF i > Len(frames) THEN st
  ELSE CHOOSE r \in
         { RunSrvHandler(nx, frames, i + 1, ackFirst) :
             nx \in { srvHandler(st, frames[i][1], frames[i][2], ackFirst) } } :
         TRUE

\* client and server after Dial and ServerHandshake, with the same table
InitUpgrade ==
  /\ \E m \in BOOLEAN :
       /\ upCli = NewConn(m, 0, 0, FALSE)
       /\ upSrv = NewConn(m, 0, 1, FALSE)
  /\ \E ackFirst \in BOOLEAN :
       upSrvCtl = [readBuf |-> <<>>, dataBuf |-> <<>>, ackFirst |-> ackFirst]
  /\ upCtl = [readBuf |-> <<>>, dataBuf |-> <<>>]
  /\ upRequested = FALSE
  /\ upActivated = FALSE
  /\ upMonitor = NewBandwidthMonitor(UpThreshold, UpWindowDur)
  /\ upNow = 0
  /\ upUp = <<>>
  /\ upDown = <<>>
  /\ upFeed = <<>>
  /\ upWritten = <<>>
  /\ upRead = <<>>
  /\ upErr = "nil"
  /\ upReqs = <<>>
  /\ upFrames = <<>>
  /\ upSteps = 0
  /\ upWrote = <<>>
  /\ CodecIdle
  /\ HsIdle
  /\ CtlIdle
  /\ MxIdle
  /\ BmIdle
  /\ DlIdle
  /\ MkIdle
  /\ HpIdle
  /\ AdIdle
  /\ AeIdle
  /\ KsIdle
  /\ FbIdle
  /\ BbIdle
  /\ RdIdle
  /\ RcIdle
  /\ BwIdle
  /\ DkIdle
  /\ KhIdle
  /\ PpIdle

\* the server's application writes a piece
UpSrvWrite ==
  /\ upSteps < MaxSrvWrites
  /\ \E p \in SrvPieces :
       \E w \in { ConnWrite(upSrv, p) } :
         /\ upSrv' = w.sc
         /\ upDown' = upDown \o w.out
         /\ upWritten' = upWritten \o p
  /\ upSteps' = upSteps + 1
  /\ UNCHANGED <<upCli, upCtl, upRequested, upActivated, upMonitor, upNow,
                 upSrvCtl, upUp, upFeed, upRead, upErr, upReqs, upFrames,
                 upWrote>>
  /\ UNCHANGED notUpVars

\* the server reads the uplink: Conn.Read decodes what the client has sent,
\* processBuffer of the server's ControlConn takes the frames out and the
\* handler runs on them
UpSrvRead ==
  /\ upUp # <<>>
  /\ \E r \in { ReadPass(upSrv, readChunkSize, upUp, "nil") } :
       \E c \in { processBuffer([readBuf |-> upSrvCtl.readBuf \o r.data,
                                 dataBuf |-> <<>>, handled |-> <<>>,
                                 events |-> <<>>]) } :
         \E st \in { RunSrvHandler([srv |-> r.sc, down |-> upDown],
                                   c.handled, 1, upSrvCtl.ackFirst) } :
           /\ upSrv' = st.srv
           /\ upDown' = st.down
           /\ upSrvCtl' = [upSrvCtl EXCEPT !.readBuf = c.readBuf]
  /\ upUp' = <<>>
  /\ UNCHANGED <<upCli, upCtl, upRequested, upActivated, upMonitor, upNow,
                 upFeed, upWritten, upRead, upErr, upReqs, upFrames, upSteps,
                 upWrote>>
  /\ UNCHANGED notUpVars

\* bytes one read of the downlink returns, unless it returns all there is
DownChunk == 22

\* the sizes of the next read of the downlink
DownSizes == { Min(DownChunk, Len(upDown)), Len(upDown) }

\* The client's application reads: ControlConn.Read calls Conn.Read, which
\* returns what is pending or decodes the next k bytes of the downlink in
\* the mode its read side is in; what it returns goes through processBuffer
\* with the handler and dataCb of wrapAPIBoost.
UpCliRead ==
  /\ upErr = "nil"
  /\ upCli.pendingData # <<>> \/ upDown # <<>>
  /\ \E k \in (IF upCli.pendingData # <<>> THEN {0} ELSE DownSizes) :
       \E r \in { IF k = 0
                  THEN CopyOut(upCli, readChunkSize) @@ [ret |-> TRUE]
                  ELSE ReadPass(upCli, readChunkSize, Take(upDown, k),
                                "nil") } :
         /\ upDown' = Drop(upDown, k)
         /\ upErr' = r.err
         /\ IF r.data # <<>>
            THEN UpCtlRead(r.data, r.sc, "ok")
            ELSE /\ upCli' = r.sc
                 /\ UNCHANGED <<upCtl, upRequested, upActivated, upMonitor,
                                upUp, upRead, upReqs, upFrames>>
  /\ UNCHANGED <<upNow, upSrv, upSrvCtl, upFeed, upWritten, upSteps, upWrote>>
  /\ UNCHANGED notUpVars

NextUpgrade == UpSrvWrite \/ UpSrvRead \/ UpCliRead

SpecUpgrade == InitUpgrade /\ [][NextUpgrade]_vars

\* C15: Across a downlink upgrade the client's application reads what the
\* server's application wrote, in order and unchanged: no Read fails, and
\* what has been read is a prefix of what has been written.
UpgradeStreamIntegrity ==
  /\ upErr = "nil"
  /\ IsPrefix(upRead, upWritten)

\* C21: When Dial or DialUoT has returned an error after rawConn was opened
\* (mask write, cipher setup, handshake write, address or preface write),
\* rawConn is closed; when it has returned a connection, rawConn is open.
\* Before the return nothing has closed it.
DialClosesOnError ==
  /\ dlPc = "done" =>
       IF dlRet.err = "nil"
       THEN dlRet.conn # "none" /\ dlConn.raw /\ ~dlRawClosed
       ELSE dlRet.conn = "none" /\ (dlRawClosed <=> dlConn.raw)
  /\ dlPc \notin {"done", "idle"} => ~dlRawClosed

\* DialUoT has failed to write its preface, after the mask and the
\* handshake went out, and rawConn is closed.
DialClosesOnErrorWitness ==
  /\ dlPc = "done"
  /\ dlCfg.UoT
  /\ dlRet.err = "uot preface failed"
  /\ Len(dlWire) = 3
  /\ dlConn.raw
  /\ dlRawClosed

\* ---- httpmask: WriteRandomRequestHeader and ConsumeHeader ----

\* the pool of User-Agent values
userAgents ==
  <<
    \* "Mozilla/5.0 (Windows NT 10.0; Win64; x64) AppleWebKit/537.36 (KHTML, like Gecko) Chrome/119.0.0.0 Safari/537.36"
    <<77, 111, 122, 105, 108, 108, 97, 47, 53, 46, 48, 32, 40, 87, 105, 110,
      100, 111, 119, 115, 32, 78, 84, 32, 49, 48, 46, 48, 59, 32, 87, 105,
      110, 54, 52, 59, 32, 120, 54, 52, 41, 32, 65, 112, 112, 108, 101, 87,
      101, 98, 75, 105, 116, 47, 53, 51, 55, 46, 51, 54, 32, 40, 75, 72, 84,
      77, 76, 44, 32, 108, 105, 107, 101, 32, 71, 101, 99, 107, 111, 41, 32,
      67, 104, 114, 111, 109, 101, 47, 49, 49, 57, 46, 48, 46, 48, 46, 48, 32,
      83, 97, 102, 97, 114, 105, 47, 53, 51, 55, 46, 51, 54>>,
    \* "Mozilla/5.0 (Macintosh; Intel Mac OS X 10_15_7) AppleWebKit/605.1.15 (KHTML, like Gecko) Version/17.0 Safari/605.1.15"
    <<77, 111, 122, 105, 108, 108, 97, 47, 53, 46, 48, 32, 40, 77, 97, 99,
      105, 110, 116, 111, 115, 104, 59, 32, 73, 110, 116, 101, 108, 32, 77,
      97, 99, 32, 79, 83, 32, 88, 32, 49, 48, 95, 49, 53, 95, 55, 41, 32, 65,
      112, 112, 108, 101, 87, 101, 98, 75, 105, 116, 47, 54, 48, 53, 46, 49,
      46, 49, 53, 32, 40, 75, 72, 84, 77, 76, 44, 32, 108, 105, 107, 101, 32,
      71, 101, 99, 107, 111, 41, 32, 86, 101, 114, 115, 105, 111, 110, 47, 49,
      55, 46, 48, 32, 83, 97, 102, 97, 114, 105, 47, 54, 48, 53, 46, 49, 46,
      49, 53>>,
    \* "Mozilla/5.0 (X11; Linux x86_64) AppleWebKit/537.36 (KHTML, like Gecko) Chrome/118.0.0.0 Safari/537.36"
    <<77, 111, 122, 105, 108, 108, 97, 47, 53, 46, 48, 32, 40, 88, 49, 49, 59,
      32, 76, 105, 110, 117, 120, 32, 120, 56, 54, 95, 54, 52, 41, 32, 65,
      112, 112, 108, 101, 87, 101, 98, 75, 105, 116, 47, 53, 51, 55, 46, 51,
      54, 32, 40, 75, 72, 84, 77, 76, 44, 32, 108, 105, 107, 101, 32, 71, 101,
      99, 107, 111, 41, 32, 67, 104, 114, 111, 109, 101, 47, 49, 49, 56, 46,
      48, 46, 48, 46, 48, 32, 83, 97, 102, 97, 114, 105, 47, 53, 51, 55, 46,
      51, 54>>,
    \* "Mozilla/5.0 (Windows NT 10.0; Win64; x64; rv:109.0) Gecko/20100101 Firefox/119.0"
    <<77, 111, 122, 105, 108, 108, 97, 47, 53, 46, 48, 32, 40, 87, 105, 110,
      100, 111, 119, 115, 32, 78, 84, 32, 49, 48, 46, 48, 59, 32, 87, 105,
      110, 54, 52, 59, 32, 120, 54, 52, 59, 32, 114, 118, 58, 49, 48, 57, 46,
      48, 41, 32, 71, 101, 99, 107, 111, 47, 50, 48, 49, 48, 48, 49, 48, 49,
      32, 70, 105, 114, 101, 102, 111, 120, 47, 49, 49, 57, 46, 48>>
  >>

\* the pool of request paths
paths ==
  <<
    \* "/api/v1/upload"
    <<47, 97, 112, 105, 47, 118, 49, 47, 117, 112, 108, 111, 97, 100>>,
    \* "/data/sync"
    <<47, 100, 97, 116, 97, 47, 115, 121, 110, 99>>,
    \* "/uploads/raw"
    <<47, 117, 112, 108, 111, 97, 100, 115, 47, 114, 97, 119>>,
    \* "/api/report"
    <<47, 97, 112, 105, 47, 114, 101, 112, 111, 114, 116>>,
    \* "/feed/update"
    <<47, 102, 101, 101, 100, 47, 117, 112, 100, 97, 116, 101>>
  >>

\* the pool of Content-Type values
contentTypes ==
  <<
    \* "application/octet-stream"
    <<97, 112, 112, 108, 105, 99, 97, 116, 105, 111, 110, 47, 111, 99, 116,
      101, 116, 45, 115, 116, 114, 101, 97, 109>>,
    \* "application/x-protobuf"
    <<97, 112, 112, 108, 105, 99, 97, 116, 105, 111, 110, 47, 120, 45, 112,
      114, 111, 116, 111, 98, 117, 102>>
  >>

\* " HTTP/1.1\r\nHost: "
MaskHostLine ==
  <<32, 72, 84, 84, 80, 47, 49, 46, 49, 13, 10, 72, 111, 115, 116, 58, 32>>

\* "\r\nUser-Agent: "
MaskUserAgentLine ==
  <<13, 10, 85, 115, 101, 114, 45, 65, 103, 101, 110, 116, 58, 32>>

\* "\r\nContent-Type: "
MaskContentTypeLine ==
  <<13, 10, 67, 111, 110, 116, 101, 110, 116, 45, 84, 121, 112, 101, 58, 32>>

\* "\r\nContent-Length: "
MaskContentLengthLine ==
  <<13, 10, 67, 111, 110, 116, 101, 110, 116, 45, 76, 101, 110, 103, 116, 104,
    58, 32>>

\* "\r\nConnection: keep-alive\r\nCache-Control: no-cache\r\n\r\n"
MaskTrailer ==
  <<13, 10, 67, 111, 110, 110, 101, 99, 116, 105, 111, 110, 58, 32, 107, 101,
    101, 112, 45, 97, 108, 105, 118, 101, 13, 10, 67, 97, 99, 104, 101, 45,
    67, 111, 110, 116, 114, 111, 108, 58, 32, 110, 111, 45, 99, 97, 99, 104,
    101, 13, 10, 13, 10>>

\* the hosts the header is written for; the last one holds line ends
MaskHosts ==
  <<
    \* "a.io:443"
    <<97, 46, 105, 111, 58, 52, 52, 51>>,
    \* "[::1]:8443"
    <<91, 58, 58, 49, 93, 58, 56, 52, 52, 51>>,
    \* "x\r\n\r\ny"
    <<120, 13, 10, 13, 10, 121>>
  >>

\* r.Int63n(1024*1024*1024): the least and the greatest value it returns
MaskDraws == {0, 1024 * 1024 * 1024 - 1}

\* the bytes that follow the header on the stream
MaskTails == {<<10, 65>>, <<13, 10, 13, 10, 7>>}

\* the most bytes one read of the connection brings into the reader
MaskSegment == 100

RECURSIVE FormatDecimal(_)
\* fmt.Appendf(buf, "%d", n) for n >= 0: the decimal digits of n
FormatDecimal(n) ==
  IF n < 10 THEN <<48 + n>>
  ELSE Append(FormatDecimal(n \div 10), 48 + (n % 10))

\* WriteRandomRequestHeader(w, host): the bytes written; r holds what the
\* random source returned: r.path, r.ua and r.ctype the indices into the
\* pools (from 1), r.n the value of Int63n
WriteRandomRequestHeaderNoBlank(host, r) ==
  MaskPOST \o <<32>> \o paths[r.path] \o MaskHostLine \o host
    \o MaskUserAgentLine \o userAgents[r.ua]
    \o MaskContentTypeLine \o contentTypes[r.ctype]
    \o MaskContentLengthLine \o FormatDecimal(1024 * 1024 * 1024 + r.n)
    \o Take(MaskTrailer, Len(MaskTrailer) - 2)

WriteRandomRequestHeader(host, r) ==
  LET contentLength == 1024 * 1024 * 1024 + r.n
  IN MaskPOST \o <<32>> \o paths[r.path] \o MaskHostLine \o host
       \o MaskUserAgentLine \o userAgents[r.ua]
       \o MaskContentTypeLine \o contentTypes[r.ctype]
       \o MaskContentLengthLine \o FormatDecimal(contentLength)
       \o MaskTrailer

\* the header of a peer that ends its empty line with a bare line feed
BareTerminated(h) == Take(h, Len(h) - 2) \o <<10>>

\* the state after the reader is made on the connection: the stream is a
\* header followed by a tail, nothing is read yet and ConsumeHeader waits in
\* its first ReadSlice
InitMask ==
  /\ \E h \in 1..Len(MaskHosts), p \in 1..Len(paths),
        u \in 1..Len(userAgents), c \in 1..Len(contentTypes),
        n \in MaskDraws, tail \in MaskTails, bare \in BOOLEAN :
       \E w \in { WriteRandomRequestHeader(MaskHosts[h],
                    [path |-> p, ua |-> u, ctype |-> c, n |-> n]) } :
         \E hdr \in { IF bare THEN BareTerminated(w) ELSE w } :
           mk = [host |-> MaskHosts[h], n |-> n, bare |-> bare,
                 header |-> hdr, tail |-> tail, wire |-> hdr \o tail,
                 buf |-> <<>>, consumed |-> <<>>, lineRead |-> FALSE,
                 res |-> "fill"]
  /\ CodecIdle
  /\ HsIdle
  /\ CtlIdle
  /\ MxIdle
  /\ BmIdle
  /\ UpIdle
  /\ DlIdle
  /\ HpIdle
  /\ AdIdle
  /\ AeIdle
  /\ KsIdle
  /\ FbIdle
  /\ BbIdle
  /\ RdIdle
  /\ RcIdle
  /\ BwIdle
  /\ DkIdle
  /\ KhIdle
  /\ PpIdle

\* ReadSlice fills the reader with the k bytes one read of the connection
\* returns and ConsumeHeader goes on to its return or to the next fill; a
\* full buffer without a line end is bufio.ErrBufferFull
MkFill ==
  /\ mk.res = "fill"
  /\ mk.wire # <<>>
  /\ \E k \in {Min(MaskSegment, Len(mk.wire)), Len(mk.wire)} :
       /\ k <= bufioSize - Len(mk.buf)
       /\ \E st \in { ConsumeLines([buf |-> mk.buf \o Take(mk.wire, k),
                                    consumed |-> mk.consumed,
                                    lineRead |-> mk.lineRead,
                                    res |-> "fill"]) } :
            mk' = [mk EXCEPT !.wire = Drop(mk.wire, k),
                             !.buf = st.buf,
                             !.consumed = st.consumed,
                             !.lineRead = st.lineRead,
                             !.res = IF st.res = "fill"
                                        /\ Len(st.buf) >= bufioSize
                                     THEN "buffer full"
                                     ELSE st.res]
  /\ UNCHANGED notMkVars

NextMask == MkFill

SpecMask == InitMask /\ [][NextMask]_vars

\* the position of the line feed that ends the first empty line of s (a
\* line that is "\r\n" or "\n"), 0 if s has none
FirstEmptyLineEnd(s) ==
  LET ends == { j \in 2..Len(s) :
                  /\ s[j] = 10
                  /\ \/ s[j - 1] = 10
                     \/ j >= 3 /\ s[j - 1] = 13 /\ s[j - 2] = 10 }
  IN IF ends = {} THEN 0 ELSE CHOOSE j \in ends : \A k \in ends : j <= k

RECURSIVE ParseDecimal(_)
\* the number the decimal digits ds stand for
ParseDecimal(ds) ==
  IF ds = <<>> THEN 0
  ELSE 10 * ParseDecimal(Take(ds, Len(ds) - 1)) + (ds[Len(ds)] - 48)

\* the value of the Content-Length line of the header h
ContentLengthOf(h) ==
  LET m == Len(MaskContentLengthLine)
      p == CHOOSE q \in 1..(Len(h) - m) :
             SubSeq(h, q, q + m - 1) = MaskContentLengthLine
      e == IndexByte(h, 13, p + m)
  IN ParseDecimal(SubSeq(h, p + m, e - 1))

\* the host holds a line feed
HostHasLineEnd(host) == \E i \in 1..Len(host) : host[i] = 10

\* C22: ConsumeHeader on a stream that starts with a written header returns
\* the bytes up to and including the first empty line, ended by "\r\n" or by
\* a bare "\n", and leaves the reader at the byte after it; for a host
\* without line ends that is the whole header and the bytes left are the
\* tail; it returns once the header is in the reader, with no error; the
\* Content-Length of the header lies in [2^30, 2^31)
MaskRoundTrip ==
  /\ mk.res \in {"fill", "ok"}
  /\ Len(mk.wire) <= Len(mk.tail) => mk.res = "ok"
  /\ mk.res = "ok" =>
       LET stream == mk.header \o mk.tail
           e == FirstEmptyLineEnd(stream)
       IN /\ e > 0
          /\ mk.consumed = Take(stream, e)
          /\ mk.buf \o mk.wire = Drop(stream, e)
          /\ ~HostHasLineEnd(mk.host) =>
               /\ mk.consumed = mk.header
               /\ mk.buf \o mk.wire = mk.tail
  /\ ContentLengthOf(mk.header) >= 1024 * 1024 * 1024
  /\ ContentLengthOf(mk.header) - 1024 * 1024 * 1024 < 1024 * 1024 * 1024
  /\ ContentLengthOf(mk.header) = 1024 * 1024 * 1024 + mk.n

\* a header ended by a bare line feed is consumed whole by a reader that had
\* read past it into the tail, which begins with a line feed
MaskRoundTripWitness ==
  /\ mk.res = "ok"
  /\ mk.bare
  /\ ~HostHasLineEnd(mk.host)
  /\ mk.consumed = mk.header
  /\ mk.buf = mk.tail
  /\ mk.tail[1] = 10
  /\ ContentLengthOf(mk.header) = 1024 * 1024 * 1024 + (1024 * 1024 * 1024 - 1)

\* ---- buildHandshakePayload, byte by byte ----

\* the keys a payload is built for; the second is the key of
\* TestBuildHandshakePayload, "handshake-key"
HpKeys ==
  { <<107>>,
    <<104, 97, 110, 100, 115, 104, 97, 107, 101, 45, 107, 101, 121>>,
    <<48, 49, 97, 98>>,
    <<107, 107>>,
    <<0, 255>> }

\* the values of time.Now().Unix() that are explored, in order
HpTimes == <<1, 255, 256, 65536, 1700000000, 2147483647>>

\* sha256.Sum256(data): 32 bytes that depend on every byte of data and on
\* its length (a stand-in for the digest, which is not computed)
Sum256(data) ==
  CHOOSE h \in { [i \in 1..32 |-> (s * 31 + i * 13) % 256] :
                 s \in { WeightedSum(data, 1) * 7 + Len(data) * 3 } } : TRUE

\* the payload with the timestamp stored least significant byte first
buildHandshakePayloadLittleEndian(key, now) ==
  [i \in 1..16 |-> IF i <= 8 THEN PutUint64(now)[9 - i]
                   ELSE Sum256(key)[i - 8]]

\* buildHandshakePayload(key) at the time now: payload[:8] is the time,
\* big-endian, payload[8:] the first 8 bytes of the digest of the key
buildHandshakePayloadAt(key, now) ==
  LET hash == Sum256(key)
  IN [i \in 1..16 |-> IF i <= 8 THEN PutUint64(now)[i] ELSE hash[i - 8]]

\* the state before the first call: a key and the clock at its first value
InitPayload ==
  /\ \E key \in HpKeys :
       hp = [key |-> key, now |-> 1, payload |-> <<>>, builtAt |-> 0]
  /\ CodecIdle
  /\ HsIdle
  /\ CtlIdle
  /\ MxIdle
  /\ BmIdle
  /\ UpIdle
  /\ DlIdle
  /\ MkIdle
  /\ AdIdle
  /\ AeIdle
  /\ KsIdle
  /\ FbIdle
  /\ BbIdle
  /\ RdIdle
  /\ RcIdle
  /\ BwIdle
  /\ DkIdle
  /\ KhIdle
  /\ PpIdle

\* the clock advances to the next of the explored times
HpTick ==
  /\ hp.now < Len(HpTimes)
  /\ hp' = [hp EXCEPT !.now = hp.now + 1]
  /\ UNCHANGED notHpVars

\* a call of buildHandshakePayload(key)
HpBuild ==
  /\ hp' = [hp EXCEPT !.payload = buildHandshakePayloadAt(hp.key,
                                                          HpTimes[hp.now]),
                      !.builtAt = hp.now]
  /\ UNCHANGED notHpVars

\* a call with another key
HpRekey ==
  /\ \E key \in HpKeys :
       hp' = [hp EXCEPT !.key = key, !.payload = <<>>, !.builtAt = 0]
  /\ hp'.key # hp.key
  /\ UNCHANGED notHpVars

NextPayload == HpTick \/ HpBuild \/ HpRekey

SpecPayload == InitPayload /\ [][NextPayload]_vars

RECURSIVE Uint(_)
\* binary.BigEndian.Uint64 of bytes that stand for less than 2^31
Uint(bs) ==
  IF bs = <<>> THEN 0
  ELSE 256 * Uint(Take(bs, Len(bs) - 1)) + bs[Len(bs)]

AddrTypeIPv4 == 1
AddrTypeDomain == 2
AddrTypeIPv6 == 3

\* the longest domain the length byte can carry
maxDomainLen == 255

\* s is one or more decimal digits
IsDigits(s) == s # <<>> /\ \A i \in 1..Len(s) : s[i] \in 48..57

RECURSIVE Split(_, _)
\* the fields of s between the separators c
Split(s, c) ==
  LET i == IndexByte(s, c, 1)
  IN IF i = 0 THEN <<s>> ELSE <<Take(s, i - 1)>> \o Split(Drop(s, i), c)

\* the port a string stands for, -1 if it is no port
ParsePort(s) ==
  IF IsDigits(s) /\ Len(s) <= 5 /\ ParseDecimal(s) <= 65535
  THEN ParseDecimal(s) ELSE 0 - 1

\* "host:port" or "[host]:port" split at the colon before the port
SplitHostPort(a) ==
  LET bad == [ok |-> FALSE, host |-> <<>>, port |-> <<>>]
  IN IF a # <<>> /\ a[1] = 91
     THEN LET e == IndexByte(a, 93, 1)
          IN IF e = 0 \/ e + 1 > Len(a) \/ a[e + 1] # 58 THEN bad
             ELSE [ok |-> TRUE, host |-> SubSeq(a, 2, e - 1),
                   port |-> Drop(a, e + 1)]
     ELSE LET cs == { i \in 1..Len(a) : a[i] = 58 }
          IN IF Cardinality(cs) # 1 THEN bad
             ELSE LET c == CHOOSE i \in cs : TRUE
                  IN [ok |-> TRUE, host |-> Take(a, c - 1),
                      port |-> Drop(a, c)]

\* a field of a dotted IPv4 literal: up to three digits, no leading zero, at
\* most 255; -1 otherwise
ParseOctet(f) ==
  IF IsDigits(f) /\ Len(f) <= 3 /\ (Len(f) = 1 \/ f[1] # 48)
     /\ ParseDecimal(f) <= 255
  THEN ParseDecimal(f) ELSE 0 - 1

\* the four bytes of a literal IPv4 host, <<>> if it is none
ParseIPv4(host) ==
  LET f == Split(host, 46)
  IN IF Len(f) = 4 /\ \A i \in 1..4 : ParseOctet(f[i]) >= 0
     THEN [i \in 1..4 |-> ParseOctet(f[i])]
     ELSE <<>>

\* the value of a hexadecimal digit, -1 if it is none
HexVal(ch) ==
  IF ch \in 48..57 THEN ch - 48
  ELSE IF ch \in 97..102 THEN ch - 87
  ELSE IF ch \in 65..70 THEN ch - 55
  ELSE 0 - 1

RECURSIVE ParseHex(_)
\* the value of one to four hexadecimal digits, -1 otherwise
ParseHex(f) ==
  IF f = <<>> \/ Len(f) > 4 \/ \E i \in 1..Len(f) : HexVal(f[i]) < 0
  THEN 0 - 1
  ELSE IF Len(f) = 1 THEN HexVal(f[1])
  ELSE 16 * ParseHex(Take(f, Len(f) - 1)) + HexVal(f[Len(f)])

\* the eight groups of a literal IPv6 host, <<>> if it is none; "::" stands
\* for one or more groups of zero
ParseIPv6Groups(host) ==
  LET dc == { i \in 1..(Len(host) - 1) : host[i] = 58 /\ host[i + 1] = 58 }
      fields(s) == IF s = <<>> THEN <<>> ELSE Split(s, 58)
      vals(fs) == [i \in 1..Len(fs) |-> ParseHex(fs[i])]
      good(vs) == \A i \in 1..Len(vs) : vs[i] >= 0
  IN IF dc = {}
     THEN LET vs == vals(fields(host))
          IN IF Len(vs) = 8 /\ good(vs) THEN vs ELSE <<>>
     ELSE IF Cardinality(dc) # 1 THEN <<>>
     ELSE LET p == CHOOSE i \in dc : TRUE
              left == vals(fields(Take(host, p - 1)))
              right == vals(fields(Drop(host, p + 1)))
              n == 8 - Len(left) - Len(right)
          IN IF n >= 1 /\ good(left) /\ good(right)
             THEN left \o [i \in 1..n |-> 0] \o right
             ELSE <<>>

\* the sixteen bytes of a literal IPv6 host, <<>> if it is none
ParseIPv6(host) ==
  LET g == ParseIPv6Groups(host)
  IN IF g = <<>> THEN <<>>
     ELSE [i \in 1..16 |-> IF i % 2 = 1 THEN g[(i + 1) \div 2] \div 256
                           ELSE g[i \div 2] % 256]

\* a port, big-endian in two bytes
PortBytes(port) == <<port \div 256, port % 256>>

\* the check with the bound off by one
domainTooLongOffByOne(host) == Len(host) > maxDomainLen + 1

\* the domain does not fit the length byte
domainTooLong(host) == Len(host) > maxDomainLen

\* WriteAddress(w, addr): the error and the bytes written (one Write)
WriteAddress(addr) ==
  LET sp == SplitHostPort(addr)
      port == ParsePort(sp.port)
      ip4 == ParseIPv4(sp.host)
      ip6 == ParseIPv6(sp.host)
      fail(e) == [err |-> e, out |-> <<>>]
  IN IF ~sp.ok THEN fail("invalid address")
     ELSE IF port < 0 THEN fail("invalid port")
     ELSE IF ip4 # <<>>
     THEN [err |-> "nil", out |-> <<AddrTypeIPv4>> \o ip4 \o PortBytes(port)]
     ELSE IF ip6 # <<>>
     THEN [err |-> "nil", out |-> <<AddrTypeIPv6>> \o ip6 \o PortBytes(port)]
     ELSE IF sp.host = <<>> \/ domainTooLong(sp.host)
     THEN fail("domain length")
     ELSE [err |-> "nil",
           out |-> <<AddrTypeDomain, Len(sp.host)>> \o sp.host
                     \o PortBytes(port)]

RECURSIVE FormatHex(_)
\* the hexadecimal digits of v, lower case, no leading zero
FormatHex(v) ==
  LET d == v % 16
      ch == IF d < 10 THEN 48 + d ELSE 87 + d
  IN IF v < 16 THEN <<ch>> ELSE Append(FormatHex(v \div 16), ch)

RECURSIVE Join(_, _)
\* the fields fs with the separator c between them
Join(fs, c) ==
  IF fs = <<>> THEN <<>>
  ELSE IF Len(fs) = 1 THEN fs[1]
  ELSE fs[1] \o <<c>> \o Join(Tail(fs), c)

\* the text of four address bytes
FormatIPv4(ip) == Join([i \in 1..4 |-> FormatDecimal(ip[i])], 46)

\* the text of sixteen address bytes: eight groups, the first longest run of
\* two or more zero groups written "::"
FormatIPv6(ip) ==
  LET g == [i \in 1..8 |-> ip[2 * i - 1] * 256 + ip[2 * i]]
      run(i) == IF g[i] # 0 THEN 0
                ELSE CHOOSE k \in 1..(9 - i) :
                       /\ \A j \in i..(i + k - 1) : g[j] = 0
                       /\ i + k = 9 \/ g[i + k] # 0
      best == CHOOSE i \in 1..8 :
                \A j \in 1..8 : run(j) < run(i) \/ (run(j) = run(i) /\ i <= j)
      hex(lo, hi) == Join([i \in 1..(hi - lo + 1) |-> FormatHex(g[lo + i - 1])],
                          58)
  IN IF run(best) < 2 THEN hex(1, 8)
     ELSE hex(1, best - 1) \o <<58, 58>> \o hex(best + run(best), 8)

\* ReadAddress(r) on a reader that holds buf: the error, the address, the
\* type tag, the IP (<<>> is nil) and the bytes left in the reader
ReadAddress(buf) ==
  LET fail(e) == [err |-> e, addr |-> <<>>, typ |-> 0, ip |-> <<>>,
                  rest |-> <<>>]
      port(i) == FormatDecimal(buf[i] * 256 + buf[i + 1])
  IN IF buf = <<>> THEN fail("EOF")
     ELSE IF buf[1] = AddrTypeIPv4
     THEN IF Len(buf) < 7 THEN fail("EOF")
          ELSE [err |-> "nil",
                addr |-> FormatIPv4(SubSeq(buf, 2, 5)) \o <<58>> \o port(6),
                typ |-> AddrTypeIPv4, ip |-> SubSeq(buf, 2, 5),
                rest |-> Drop(buf, 7)]
     ELSE IF buf[1] = AddrTypeIPv6
     THEN IF Len(buf) < 19 THEN fail("EOF")
          ELSE [err |-> "nil",
                addr |-> <<91>> \o FormatIPv6(SubSeq(buf, 2, 17))
                           \o <<93, 58>> \o port(18),
                typ |-> AddrTypeIPv6, ip |-> SubSeq(buf, 2, 17),
                rest |-> Drop(buf, 19)]
     ELSE IF buf[1] = AddrTypeDomain
     THEN IF Len(buf) < 2 THEN fail("EOF")
          ELSE IF buf[2] = 0 THEN fail("domain length")
          ELSE IF Len(buf) < 4 + buf[2] THEN fail("EOF")
          ELSE [err |-> "nil",
                addr |-> SubSeq(buf, 3, 2 + buf[2]) \o <<58>>
                           \o port(3 + buf[2]),
                typ |-> AddrTypeDomain, ip |-> <<>>,
                rest |-> Drop(buf, 4 + buf[2])]
     ELSE fail("unknown address type")

\* literal IPv4 addresses with a port, in the text form ReadAddress returns
AdIPv4Addrs ==
  {
    \* "1.2.3.4:8080"
    <<49, 46, 50, 46, 51, 46, 52, 58, 56, 48, 56, 48>>,
    \* "0.0.0.0:0"
    <<48, 46, 48, 46, 48, 46, 48, 58, 48>>,
    \* "255.255.255.255:65535"
    <<50, 53, 53, 46, 50, 53, 53, 46, 50, 53, 53, 46, 50, 53, 53, 58, 54, 53,
      53, 51, 53>>,
    \* "10.0.0.1:443"
    <<49, 48, 46, 48, 46, 48, 46, 49, 58, 52, 52, 51>>,
    \* "192.168.100.9:53"
    <<49, 57, 50, 46, 49, 54, 56, 46, 49, 48, 48, 46, 57, 58, 53, 51>>,
    \* "8.8.8.8:853"
    <<56, 46, 56, 46, 56, 46, 56, 58, 56, 53, 51>>
  }

\* bracketed IPv6 addresses with a port, in the text form ReadAddress returns
\* (lower case, no leading zeros, the first longest zero run as "::")
AdIPv6Addrs ==
  {
    \* "[2001:db8::1]:443"
    <<91, 50, 48, 48, 49, 58, 100, 98, 56, 58, 58, 49, 93, 58, 52, 52, 51>>,
    \* "[::]:1"
    <<91, 58, 58, 93, 58, 49>>,
    \* "[::1]:8443"
    <<91, 58, 58, 49, 93, 58, 56, 52, 52, 51>>,
    \* "[fe80::1:0:0:2]:22"
    <<91, 102, 101, 56, 48, 58, 58, 49, 58, 48, 58, 48, 58, 50, 93, 58, 50, 50>>,
    \* "[1:2:3:4:5:6:7:8]:80"
    <<91, 49, 58, 50, 58, 51, 58, 52, 58, 53, 58, 54, 58, 55, 58, 56, 93, 58,
      56, 48>>,
    \* "[1::]:9"
    <<91, 49, 58, 58, 93, 58, 57>>,
    \* "[1:0:0:2::]:256"
    <<91, 49, 58, 48, 58, 48, 58, 50, 58, 58, 93, 58, 50, 53, 54>>,
    \* "[ffff:ffff:ffff:ffff:ffff:ffff:ffff:ffff]:65535"
    <<91, 102, 102, 102, 102, 58, 102, 102, 102, 102, 58, 102, 102, 102, 102,
      58, 102, 102, 102, 102, 58, 102, 102, 102, 102, 58, 102, 102, 102, 102,
      58, 102, 102, 102, 102, 58, 102, 102, 102, 102, 93, 58, 54, 53, 53, 51,
      53>>
  }

\* domain addresses with a port, and the domains of maxDomainLen - 1,
\* maxDomainLen and maxDomainLen + 1 bytes
AdDomainAddrs ==
  {
    \* "example.com:53"
    <<101, 120, 97, 109, 112, 108, 101, 46, 99, 111, 109, 58, 53, 51>>,
    \* "a:80"
    <<97, 58, 56, 48>>,
    \* "localhost:1"
    <<108, 111, 99, 97, 108, 104, 111, 115, 116, 58, 49>>,
    \* "1.2.3:7"
    <<49, 46, 50, 46, 51, 58, 55>>,
    \* "x-y.io:65535"
    <<120, 45, 121, 46, 105, 111, 58, 54, 53, 53, 51, 53>>,
    \* "1.2.3.256:80"
    <<49, 46, 50, 46, 51, 46, 50, 53, 54, 58, 56, 48>>
  }
    \cup { [i \in 1..(n + 3) |-> IF i <= n THEN 97 ELSE <<58, 56, 48>>[i - n]] :
             n \in (maxDomainLen - 1)..(maxDomainLen + 1) }

\* the bytes that follow the address on the stream
AdTails == {<<>>, <<1, 2>>}

\* buffers handed to ReadAddress that no WriteAddress wrote: the one of
\* TestReadAddress_UnknownType and unknown type tags
AdRawBufs == {<<2, 0, 80>>, <<0, 1, 97, 0, 80>>, <<4, 1, 2, 3, 4, 0, 80>>,
              <<9, 1, 97, 0, 80>>}

\* the state before WriteAddress, or before ReadAddress on a raw buffer
InitAddress ==
  /\ \/ \E a \in AdIPv4Addrs \cup AdIPv6Addrs \cup AdDomainAddrs,
           t \in AdTails :
          ad = [pc |-> "start", addr |-> a, tail |-> t, buf |-> <<>>,
                werr |-> "nil", r |-> ReadAddress(<<>>)]
     \/ \E b \in AdRawBufs :
          ad = [pc |-> "raw", addr |-> <<>>, tail |-> <<>>, buf |-> b,
                werr |-> "nil", r |-> ReadAddress(<<>>)]
  /\ CodecIdle
  /\ HsIdle
  /\ CtlIdle
  /\ MxIdle
  /\ BmIdle
  /\ UpIdle
  /\ DlIdle
  /\ MkIdle
  /\ HpIdle
  /\ AeIdle
  /\ KsIdle
  /\ FbIdle
  /\ BbIdle
  /\ RdIdle
  /\ RcIdle
  /\ BwIdle
  /\ DkIdle
  /\ KhIdle
  /\ PpIdle

\* WriteAddress(buf, addr); the tail is written after it
AdWrite ==
  /\ ad.pc = "start"
  /\ \E w \in { WriteAddress(ad.addr) } :
       ad' = [ad EXCEPT !.pc = IF w.err = "nil" THEN "written" ELSE "rejected",
                        !.werr = w.err,
                        !.buf = IF w.err = "nil" THEN w.out \o ad.tail
                                ELSE <<>>]
  /\ UNCHANGED notAdVars

\* ReadAddress(buf)
AdRead ==
  /\ ad.pc \in {"written", "raw"}
  /\ \E r \in { ReadAddress(ad.buf) } :
       ad' = [ad EXCEPT !.pc = IF ad.pc = "raw" THEN "rawread" ELSE "read",
                        !.r = r,
                        !.buf = r.rest]
  /\ UNCHANGED notAdVars

NextAddress == AdWrite \/ AdRead

SpecAddress == InitAddress /\ [][NextAddress]_vars

\* the host of an address of the input sets: what is before the last colon
AdHostLen(a) ==
  (CHOOSE i \in 1..Len(a) :
     a[i] = 58 /\ \A j \in (i + 1)..Len(a) : a[j] # 58) - 1

\* C24: for the literal IPv4, bracketed IPv6 and domain addresses (in the
\* text form ReadAddress returns), ReadAddress after WriteAddress returns the
\* address, the type tag of its form, an IP for the literal forms and none
\* for a domain, and leaves the bytes that follow; WriteAddress rejects a
\* domain exactly when it is longer than 255 bytes and writes bytes only;
\* ReadAddress fails on a buffer with an unknown type tag
AddressRoundTrip ==
  /\ ad.pc \in {"written", "rejected", "read"} =>
       /\ ad.werr # "nil" <=>
            ad.addr \in AdDomainAddrs /\ AdHostLen(ad.addr) > 255
       /\ \A i \in 1..Len(ad.buf) : ad.buf[i] \in 0..255
  /\ ad.pc = "read" =>
       /\ ad.r.err = "nil"
       /\ ad.r.addr = ad.addr
       /\ ad.buf = ad.tail
       /\ ad.addr \in AdIPv4Addrs =>
            ad.r.typ = AddrTypeIPv4 /\ Len(ad.r.ip) = 4
       /\ ad.addr \in AdIPv6Addrs =>
            ad.r.typ = AddrTypeIPv6 /\ Len(ad.r.ip) = 16
       /\ ad.addr \in AdDomainAddrs =>
            ad.r.typ = AddrTypeDomain /\ ad.r.ip = <<>>
  /\ ad.pc = "rawread" => ad.r.err # "nil"

\* the domain of 255 bytes has been written and read back with the bytes
\* that follow it left in place
AddressRoundTripWitness ==
  /\ ad.pc = "read"
  /\ ad.addr \in AdDomainAddrs
  /\ AdHostLen(ad.addr) = 255
  /\ ad.r.addr = ad.addr
  /\ ad.buf = <<1, 2>>

\* ---- crypto.AEADConn: length-prefixed sealed records ----

\* writes of the sender that are explored
MaxAeWrites == 2

\* the payloads of one Write
AePayloads == {<<7>>, <<1, 2, 3>>, <<255, 0>>}

\* the seeds both sides are opened with: "secret-key" of the test, and "k"
AeSeeds ==
  { <<115, 101, 99, 114, 101, 116, 45, 107, 101, 121>>, <<107>> }

\* the key of a cipher: SHA-256(seed) cut to the cipher's key length
aeadKeyBytes(seed, method) ==
  Take(Sum256(seed), IF method = "aes-128-gcm" THEN 16 ELSE 32)

\* the i-th byte of the keystream of a record (a stand-in for the cipher:
\* it depends on the key, on the nonce and on the position)
AeStream(key, nonce, i) ==
  (key[((i + nonce) % Len(key)) + 1] + 7 * nonce + 3 * i) % 256

\* the 16-byte tag of a record (a stand-in: it depends on the key, on the
\* nonce and on every byte of the ciphertext with its position)
AeTag(key, nonce, ct) ==
  CHOOSE t \in { [i \in 1..16 |-> (s + i * 13) % 256] :
                 s \in { WeightedSum(ct, 1) * 7 + key[1] * 31 + key[Len(key)]
                           + nonce * 5 + Len(ct) * 3 } } : TRUE

\* aead.Seal(nil, nonce, pt, nil): ciphertext and tag
Seal(key, nonce, pt) ==
  LET ct == [i \in 1..Len(pt) |-> (pt[i] + AeStream(key, nonce, i)) % 256]
  IN ct \o AeTag(key, nonce, ct)

\* aead.Open(nil, nonce, rec, nil): the plaintext, or a failed
\* authentication
Open(key, nonce, rec) ==
  IF Len(rec) < 16 THEN [ok |-> FALSE, pt |-> <<>>]
  ELSE LET ct == Take(rec, Len(rec) - 16)
       IN IF Drop(rec, Len(rec) - 16) # AeTag(key, nonce, ct)
          THEN [ok |-> FALSE, pt |-> <<>>]
          ELSE [ok |-> TRUE,
                pt |-> [i \in 1..Len(ct) |->
                          (ct[i] + 256 - AeStream(key, nonce, i)) % 256]]

\* AEADConn.Write(p): one record, its length in two bytes big-endian before
\* it; with "none" the bytes themselves
aeadWrite(key, method, nonce, p) ==
  IF method = "none" THEN p
  ELSE LET rec == Seal(key, nonce, p)
       IN <<Len(rec) \div 256, Len(rec) % 256>> \o rec

\* a Read that forgets the opened bytes its caller's buffer did not hold
aeadKeepNothing(pt, n) == <<>>

\* the opened bytes that did not fit the caller's buffer of n bytes: they
\* are kept for the next Read
aeadKeep(pt, n) == Drop(pt, n)

\* both sides opened with the same seed and the same cipher name
InitAEAD ==
  /\ \E m \in {"chacha20-poly1305", "aes-128-gcm", "none"}, seed \in AeSeeds :
       /\ NewAEADConn(m) = "nil"
       /\ ae = [method |-> m, key |-> aeadKeyBytes(seed, m),
                sendNonce |-> 0, recvNonce |-> 0, wire |-> <<>>,
                pending |-> <<>>, written |-> <<>>, read |-> <<>>,
                writes |-> 0, err |-> "nil"]
  /\ CodecIdle
  /\ HsIdle
  /\ CtlIdle
  /\ MxIdle
  /\ BmIdle
  /\ UpIdle
  /\ DlIdle
  /\ MkIdle
  /\ HpIdle
  /\ AdIdle
  /\ KsIdle
  /\ FbIdle
  /\ BbIdle
  /\ RdIdle
  /\ RcIdle
  /\ BwIdle
  /\ DkIdle
  /\ KhIdle
  /\ PpIdle

\* connA.Write(p)
AeWrite ==
  /\ ae.writes < MaxAeWrites
  /\ \E p \in AePayloads :
       ae' = [ae EXCEPT !.wire = @ \o aeadWrite(ae.key, ae.method,
                                                 ae.sendNonce, p),
                         !.sendNonce = IF ae.method = "none" THEN @ ELSE @ + 1,
                         !.written = @ \o p,
                         !.writes = @ + 1]
  /\ UNCHANGED notAeVars

\* connB.Read(buf) with len(buf) = n: opened bytes that are pending first;
\* otherwise the next record is read whole (io.ReadFull) and opened, and a
\* record that does not open is fatal; with "none" the transport's Read
AeRead ==
  /\ ae.err = "nil"
  /\ \E n \in {1, 4} :
       IF ae.method = "none"
       THEN /\ ae.wire # <<>>
            /\ ae' = [ae EXCEPT !.wire = Drop(@, Min(n, Len(ae.wire))),
                                !.read = @ \o Take(ae.wire,
                                                   Min(n, Len(ae.wire)))]
       ELSE IF ae.pending # <<>>
       THEN ae' = [ae EXCEPT !.pending = aeadKeep(ae.pending, n),
                             !.read = @ \o Take(ae.pending,
                                                Min(n, Len(ae.pending)))]
       ELSE /\ Len(ae.wire) >= 2
            /\ \E len \in { ae.wire[1] * 256 + ae.wire[2] } :
                 /\ Len(ae.wire) >= 2 + len
                 /\ \E o \in { Open(ae.key, ae.recvNonce,
                                    SubSeq(ae.wire, 3, 2 + len)) } :
                      ae' = [ae EXCEPT
                               !.wire = Drop(@, 2 + len),
                               !.recvNonce = @ + 1,
                               !.err = IF o.ok THEN "nil" ELSE "decrypt failed",
                               !.pending = aeadKeep(o.pt, n),
                               !.read = @ \o Take(o.pt, Min(n, Len(o.pt)))]
  /\ UNCHANGED notAeVars

NextAEAD == AeWrite \/ AeRead

SpecAEAD == InitAEAD /\ [][NextAEAD]_vars

\* C25: between two AEADConn opened with the same key and the same cipher
\* name, what the peer has read is what was written, in order, less the
\* bytes still on the pipe or opened and pending; no record fails to open;
\* with "none" the pipe carries the written bytes themselves
AEADRoundTrip ==
  /\ ae.err = "nil"
  /\ IsPrefix(ae.read, ae.written)
  /\ ae.wire = <<>> => ae.read \o ae.pending = ae.written
  /\ ae.method = "none" => ae.read \o ae.wire = ae.written

\* two records of a cipher were written and all their bytes read back, the
\* three-byte record in more than one Read
AEADRoundTripWitness ==
  /\ ae.method = "aes-128-gcm"
  /\ ae.written = <<1, 2, 3, 255, 0>>
  /\ ae.read = ae.written
  /\ ae.recvNonce = 2
  /\ ae.wire = <<>>

\* ---- crypto: master key, split key, public key ----

\* a stand-in for edwards25519's prime-order group: the scalars are the
\* integers mod l, the points the powers of g mod p, and g has order l
Group == [l |-> 13, p |-> 53, g |-> 16]

\* the canonical scalars
Scalars == 0..(Group.l - 1)

RECURSIVE ScalarBaseMult(_)
\* s * G
ScalarBaseMult(s) ==
  IF s = 0 THEN 1 ELSE (Group.g * ScalarBaseMult(s - 1)) % Group.p

\* P + Q
PointAdd(P, Q) == (P * Q) % Group.p

\* Scalar.Add: a + b mod l
ScalarAdd(a, b) == (a + b) % Group.l

\* Scalar.Bytes and Point.Bytes: 32 bytes, little-endian
Bytes32(v) == [i \in 1..32 |-> IF i = 1 THEN v ELSE 0]

\* Scalar.SetCanonicalBytes: the scalar, -1 if the bytes are not 32 or not
\* below l
SetCanonicalBytes(bs) ==
  IF Len(bs) = 32 /\ bs[1] < Group.l /\ \A i \in 2..32 : bs[i] = 0
  THEN bs[1] ELSE 0 - 1

\* hex.EncodeToString
HexEncode(bs) ==
  LET ch(d) == IF d < 10 THEN 48 + d ELSE 87 + d
  IN [i \in 1..(2 * Len(bs)) |->
        IF i % 2 = 1 THEN ch(bs[(i + 1) \div 2] \div 16)
        ELSE ch(bs[i \div 2] % 16)]

\* hex.DecodeString: the bytes, or ok = FALSE
HexDecode(s) ==
  IF Len(s) % 2 # 0 \/ \E i \in 1..Len(s) : HexVal(s[i]) < 0
  THEN [ok |-> FALSE, bytes |-> <<>>]
  ELSE [ok |-> TRUE,
        bytes |-> [i \in 1..(Len(s) \div 2) |->
                     16 * HexVal(s[2 * i - 1]) + HexVal(s[2 * i])]]

\* EncodeScalar and EncodePoint: the hex of the 32 bytes
EncodeScalar(s) == HexEncode(Bytes32(s))
EncodePointHex(P) == HexEncode(Bytes32(P))

\* GenerateMasterKey with the random scalar s
GenerateMasterKey(s) == [Private |-> s, Public |-> ScalarBaseMult(s)]

\* a split whose second scalar is s + r
SplitPrivateKeyAdds(s, r) ==
  HexEncode(Bytes32(r) \o Bytes32((s + r) % Group.l))

\* SplitPrivateKey(s) with the random scalar r: the hex of r and k = s - r
SplitPrivateKey(s, r) ==
  LET k == (s + Group.l - r) % Group.l
  IN HexEncode(Bytes32(r) \o Bytes32(k))

\* RecoverPublicKey(keyHex): 32 bytes are a scalar s and give s * G, 64 bytes
\* are r and k and give (r + k) * G
RecoverPublicKeyHex(keyHex) ==
  LET d == HexDecode(keyHex)
      fail == [err |-> "invalid key", point |-> 0]
  IN IF ~d.ok THEN fail
     ELSE IF Len(d.bytes) = 32
     THEN LET s == SetCanonicalBytes(d.bytes)
          IN IF s < 0 THEN fail
             ELSE [err |-> "nil", point |-> ScalarBaseMult(s)]
     ELSE IF Len(d.bytes) = 64
     THEN LET r == SetCanonicalBytes(Take(d.bytes, 32))
              k == SetCanonicalBytes(Drop(d.bytes, 32))
          IN IF r < 0 \/ k < 0 THEN fail
             ELSE [err |-> "nil", point |-> ScalarBaseMult(ScalarAdd(r, k))]
     ELSE fail

\* the master pair has been generated
InitKeys ==
  /\ \E s \in Scalars :
       ks = [pc |-> "generated", pair |-> GenerateMasterKey(s),
             split |-> <<>>, fromSplit |-> [err |-> "none", point |-> 0],
             fromMaster |-> [err |-> "none", point |-> 0]]
  /\ CodecIdle
  /\ HsIdle
  /\ CtlIdle
  /\ MxIdle
  /\ BmIdle
  /\ UpIdle
  /\ DlIdle
  /\ MkIdle
  /\ HpIdle
  /\ AdIdle
  /\ AeIdle
  /\ FbIdle
  /\ BbIdle
  /\ RdIdle
  /\ RcIdle
  /\ BwIdle
  /\ DkIdle
  /\ KhIdle
  /\ PpIdle

\* SplitPrivateKey(pair.Private)
KsSplit ==
  /\ ks.pc = "generated"
  /\ \E r \in Scalars :
       ks' = [ks EXCEPT !.pc = "split",
                        !.split = SplitPrivateKey(ks.pair.Private, r)]
  /\ UNCHANGED notKsVars

\* RecoverPublicKey(splitKeyHex)
KsRecoverSplit ==
  /\ ks.pc = "split"
  /\ ks.fromSplit.err = "none"
  /\ ks' = [ks EXCEPT !.fromSplit = RecoverPublicKeyHex(ks.split)]
  /\ UNCHANGED notKsVars

\* RecoverPublicKey(EncodeScalar(pair.Private))
KsRecoverMaster ==
  /\ ks.fromMaster.err = "none"
  /\ ks' = [ks EXCEPT !.fromMaster =
                        RecoverPublicKeyHex(EncodeScalar(ks.pair.Private))]
  /\ UNCHANGED notKsVars

NextKeys == KsSplit \/ KsRecoverSplit \/ KsRecoverMaster

SpecKeys == InitKeys /\ [][NextKeys]_vars

\* C26: the split key decodes to two canonical scalars r and k with
\* r + k = s mod l, so r * G + k * G and (r + k) * G are the public point P
\* of s; RecoverPublicKey returns P for the split key and for the encoded
\* master scalar
SplitPreservesPublicKey ==
  /\ ks.pc = "split" =>
       LET d == HexDecode(ks.split)
           r == SetCanonicalBytes(Take(d.bytes, 32))
           k == SetCanonicalBytes(Drop(d.bytes, 32))
       IN /\ d.ok /\ Len(d.bytes) = 64
          /\ r \in Scalars /\ k \in Scalars
          /\ (r + k) % Group.l = ks.pair.Private
          /\ PointAdd(ScalarBaseMult(r), ScalarBaseMult(k)) = ks.pair.Public
          /\ ScalarBaseMult(ScalarAdd(r, k)) = ks.pair.Public
  /\ ks.fromSplit.err # "none" =>
       /\ ks.fromSplit.err = "nil"
       /\ EncodePointHex(ks.fromSplit.point) = EncodePointHex(ks.pair.Public)
  /\ ks.fromMaster.err # "none" =>
       /\ ks.fromMaster.err = "nil"
       /\ EncodePointHex(ks.fromMaster.point) = EncodePointHex(ks.pair.Public)

\* a split with r greater than s (k wraps mod l), recovered both ways
SplitPreservesPublicKeyWitness ==
  /\ ks.pc = "split"
  /\ ks.pair.Private = 3
  /\ SetCanonicalBytes(Take(HexDecode(ks.split).bytes, 32)) = 11
  /\ SetCanonicalBytes(Drop(HexDecode(ks.split).bytes, 32)) = 5
  /\ ks.fromSplit.err = "nil"
  /\ ks.fromMaster.err = "nil"
  /\ ks.fromSplit.point = ks.pair.Public

\* ---- handler.HandleSuspicious with a fallback address ----

\* what GetBufferedAndRecorded returns: nothing, one byte, or "bad" as in
\* the test
FbRecorded == {<<>>, <<71>>, <<98, 97, 100>>}

\* what the client writes after the handler took over: nothing, one byte,
\* or "tail" as in the test
FbClientData == {<<>>, <<116>>, <<116, 97, 105, 108>>}

\* HandleSuspicious(wrapper, rawConn, cfg) is called with cfg.FallbackAddr
\* set and the endpoint listening; the client has written nothing since
InitFallback ==
  /\ \E R \in FbRecorded, data \in FbClientData :
       fb = [pc |-> "start", R |-> R, toSend |-> data, sent |-> <<>>,
             pipe |-> <<>>, clientClosed |-> FALSE, got |-> <<>>,
             dstClosed |-> FALSE]
  /\ CodecIdle
  /\ HsIdle
  /\ CtlIdle
  /\ MxIdle
  /\ BmIdle
  /\ UpIdle
  /\ DlIdle
  /\ MkIdle
  /\ HpIdle
  /\ AdIdle
  /\ AeIdle
  /\ KsIdle
  /\ BbIdle
  /\ RdIdle
  /\ RcIdle
  /\ BwIdle
  /\ DkIdle
  /\ KhIdle
  /\ PpIdle

\* the handler dials cfg.FallbackAddr
FbDial ==
  /\ fb.pc = "start"
  /\ fb' = [fb EXCEPT !.pc = "dialed"]
  /\ UNCHANGED notFbVars

\* a handler that starts to copy without the replay
FbReplaySkipped ==
  /\ fb.pc = "dialed"
  /\ fb' = [fb EXCEPT !.pc = "copying"]
  /\ UNCHANGED notFbVars

\* the handler writes the bytes of wrapper.GetBufferedAndRecorded() to the
\* fallback connection, before it copies
FbReplay ==
  /\ fb.pc = "dialed"
  /\ fb' = [fb EXCEPT !.pc = "copying", !.got = @ \o fb.R]
  /\ UNCHANGED notFbVars

\* clientSide.Write: the pipe takes one write at a time
FbClientWrite ==
  /\ ~fb.clientClosed
  /\ fb.pipe = <<>>
  /\ fb.toSend # <<>>
  /\ \E n \in 1..Len(fb.toSend) :
       fb' = [fb EXCEPT !.pipe = Take(fb.toSend, n),
                        !.sent = @ \o Take(fb.toSend, n),
                        !.toSend = Drop(@, n)]
  /\ UNCHANGED notFbVars

\* clientSide.Close(), after its last Write has returned
FbClientClose ==
  /\ ~fb.clientClosed
  /\ fb.pipe = <<>>
  /\ fb' = [fb EXCEPT !.clientClosed = TRUE, !.toSend = <<>>]
  /\ UNCHANGED notFbVars

\* the copy from rawConn to the fallback connection: one Read of rawConn
\* and the Write of what it returned
FbCopy ==
  /\ fb.pc = "copying"
  /\ fb.pipe # <<>>
  /\ \E n \in 1..Len(fb.pipe) :
       fb' = [fb EXCEPT !.pipe = Drop(@, n), !.got = @ \o Take(fb.pipe, n)]
  /\ UNCHANGED notFbVars

\* the Read of rawConn returns EOF: the copy ends and the fallback
\* connection is closed
FbCopyEOF ==
  /\ fb.pc = "copying"
  /\ fb.pipe = <<>>
  /\ fb.clientClosed
  /\ fb' = [fb EXCEPT !.pc = "closed", !.dstClosed = TRUE]
  /\ UNCHANGED notFbVars

NextFallback ==
  FbDial \/ FbReplay \/ FbClientWrite \/ FbClientClose \/ FbCopy \/ FbCopyEOF

\* the handler's goroutines are scheduled; the client may stop at any time
SpecFallback ==
  /\ InitFallback
  /\ [][NextFallback]_vars
  /\ WF_vars(FbDial)
  /\ WF_vars(FbReplay)
  /\ WF_vars(FbCopy)
  /\ WF_vars(FbCopyEOF)

\* what the fallback endpoint was sent is, in order, R and then what the
\* client wrote, as far as it was forwarded; nothing is forwarded before R
\* is; the fallback connection is closed only after the client closed, with
\* everything forwarded
FallbackOrder ==
  /\ IsPrefix(fb.got, fb.R \o fb.sent)
  /\ fb.pc \in {"copying", "closed"} => IsPrefix(fb.R, fb.got)
  /\ fb.pc \in {"start", "dialed"} => fb.got = <<>>
  /\ fb.dstClosed => fb.clientClosed /\ fb.got = fb.R \o fb.sent

\* C27: the fallback endpoint receives R followed by the bytes the client
\* sends on the raw connection, in order, nothing inserted, lost or
\* duplicated, and once the client has closed the fallback connection is
\* closed, with all of them received
FallbackReplay ==
  /\ []FallbackOrder
  /\ fb.clientClosed ~> (fb.dstClosed /\ fb.got = fb.R \o fb.sent)

\* the test's run: "bad" was recorded, the client wrote "tail" and closed,
\* and the endpoint has all of "badtail" on a closed connection
FallbackReplayWitness ==
  /\ fb.dstClosed
  /\ fb.R = <<98, 97, 100>>
  /\ fb.sent = <<116, 97, 105, 108>>
  /\ fb.got = <<98, 97, 100, 116, 97, 105, 108>>

\* ---- Conn.Write: where the padding goes ----

\* the positions of out that hold padding
PaddingAt(isASCII, out) == { i \in 1..Len(out) : IsPadding(isASCII, out[i]) }

\* the padding bytes of out before its first codeword byte
LeadingPadding(isASCII, out) ==
  Cardinality({ i \in PaddingAt(isASCII, out) :
                  \A j \in 1..i : IsPadding(isASCII, out[j]) })

\* C28: a Write of n plaintext bytes in legacy mode hands the transport
\* exactly 4n codeword bytes and at most 5n+1 padding bytes, at most one of
\* them before the first codeword byte (one coin before the codeword, one
\* between adjacent codeword bytes, one after its last byte, one trailing)
PaddingPositions ==
  [][nWrites' = nWrites + 1 =>
       LET out == Drop(rawSent', Len(rawSent))
           n == Len(sent') - Len(sent)
           pads == Cardinality(PaddingAt(snd.isASCII, out))
       IN /\ Len(out) - pads = 4 * n
          /\ pads <= 5 * n + 1
          /\ LeadingPadding(snd.isASCII, out) <= 1]_vars

\* the padding bytes of out after its last codeword byte
TrailingPadding(isASCII, out) ==
  Cardinality({ i \in PaddingAt(isASCII, out) :
                  \A j \in i..Len(out) : IsPadding(isASCII, out[j]) })

\* the positions of the codeword bytes of out, in order
CodewordAt(isASCII, out) ==
  LET at == (1..Len(out)) \ PaddingAt(isASCII, out)
  IN [k \in 1..Cardinality(at) |->
        CHOOSE i \in at : Cardinality({ j \in at : j < i }) = k - 1]

\* C28 as amended: a Write of n plaintext bytes in legacy mode hands the
\* transport exactly 4n codeword bytes and at most 5n+1 padding bytes: at
\* most two before the first byte of each codeword (the coin before the
\* codeword and the coin before its first byte), at most one between two
\* adjacent bytes of a codeword, none after a codeword's last byte but the
\* one of the trailing coin after the last codeword of the buffer
PaddingBeforeEachByte ==
  [][nWrites' = nWrites + 1 =>
       LET out == Drop(rawSent', Len(rawSent))
           n == Len(sent') - Len(sent)
           pads == Cardinality(PaddingAt(snd.isASCII, out))
           cw == CodewordAt(snd.isASCII, out)
       IN /\ Len(cw) = 4 * n
          /\ pads <= 5 * n + 1
          /\ LeadingPadding(snd.isASCII, out) <= 2
          /\ TrailingPadding(snd.isASCII, out) <= 1
          /\ \A k \in 1..(Len(cw) - 1) :
               cw[k + 1] - cw[k] - 1 <= IF k % 4 = 0 THEN 2 ELSE 1]_vars

\* a write at padding rate 100 has been made: its output starts with two
\* padding bytes and ends with one
PaddingBeforeEachByteWitness ==
  /\ nWrites = 1
  /\ snd.paddingRate = 100
  /\ Len(rawSent) = 5 * Len(sent) + 1 + 4 * Len(sent)
  /\ IsPadding(snd.isASCII, rawSent[1])
  /\ IsPadding(snd.isASCII, rawSent[2])
  /\ ~IsPadding(snd.isASCII, rawSent[3])
  /\ IsPadding(snd.isASCII, rawSent[Len(rawSent)])
  /\ ~IsPadding(snd.isASCII, rawSent[Len(rawSent) - 1])

\* ---------------------------------------------------------------------------
\* One carrier byte of the boost path, from packBoostByte to unpackBoostByte

\* the 6-bit values
SixBitValues == 0..63

InitCarrier ==
  /\ bb \in { [ascii |-> a, v |-> v, st |-> "start", carrier |-> 0,
               padding |-> FALSE, unpacked |-> 0] :
              a \in BOOLEAN, v \in SixBitValues }
  /\ CodecIdle
  /\ HsIdle
  /\ CtlIdle
  /\ MxIdle
  /\ BmIdle
  /\ UpIdle
  /\ DlIdle
  /\ MkIdle
  /\ HpIdle
  /\ AdIdle
  /\ AeIdle
  /\ KsIdle
  /\ FbIdle
  /\ RdIdle
  /\ RcIdle
  /\ BwIdle
  /\ DkIdle
  /\ KhIdle
  /\ PpIdle

\* writeBoost / flushBoostPadding: encoded := sc.packBoostByte(chunk)
BbPack ==
  /\ bb.st = "start"
  /\ bb' = [bb EXCEPT !.st = "packed",
                      !.carrier = packBoostByte(bb.ascii, bb.v)]
  /\ UNCHANGED notBbVars

\* readBoost: the test of the byte in the loop over the chunk
BbClassify ==
  /\ bb.st = "packed"
  /\ bb' = [bb EXCEPT !.st = "classified",
                      !.padding = IsPadding(bb.ascii, bb.carrier)]
  /\ UNCHANGED notBbVars

\* readBoost: chunkBits := sc.unpackBoostByte(b), for a byte that is data
BbUnpack ==
  /\ bb.st = "classified"
  /\ ~bb.padding
  /\ bb' = [bb EXCEPT !.st = "unpacked",
                      !.unpacked = unpackBoostByte(bb.ascii, bb.carrier)]
  /\ UNCHANGED notBbVars

NextCarrier == BbPack \/ BbClassify \/ BbUnpack

SpecCarrier == InitCarrier /\ [][NextCarrier]_vars

\* C29: for every 6-bit value v and both modes the byte packBoostByte(v) has
\* bit 6 set (ASCII) or no bit of 0x90 set (entropy), so the read loop takes
\* it for data and never for padding, and unpackBoostByte of it is v.
CarrierInvertible ==
  /\ bb.st \in {"packed", "classified", "unpacked"} =>
       /\ bb.carrier \in 0..255
       /\ bb.ascii => BitAnd(bb.carrier, 64) = 64
       /\ ~bb.ascii => BitAnd(bb.carrier, 144) = 0
  /\ bb.st \in {"classified", "unpacked"} => ~bb.padding
  /\ bb.st = "unpacked" => bb.unpacked = bb.v

\* the entropy carrier of a value with both high bits set has been unpacked
CarrierInvertibleWitness ==
  /\ bb.st = "unpacked"
  /\ ~bb.ascii
  /\ bb.v = 63
  /\ bb.carrier = 111
  /\ bb.unpacked = 63

\* ---------------------------------------------------------------------------
\* Close of a connection, at any point of the stream and more than once

\* snd.Close(), whether or not everything has been written and whether or
\* not the write side is in boost mode
FlushClose ==
  /\ ~sndClosed
  /\ LET r == ConnClose(snd)
     IN /\ snd' = r.sc
        /\ wire' = wire \o r.out
        /\ rawSent' = rawSent \o r.out
  /\ sndClosed' = TRUE
  /\ UNCHANGED <<rcv, toSend, sent, nWrites, received, rdPlen, rdErr>>
  /\ UNCHANGED notCodecVars

\* snd.Close() once more: flushBoostPadding runs again and hands what it
\* built to the closed transport, which takes nothing onto the wire
FlushCloseAgain ==
  /\ sndClosed
  /\ LET r == ConnClose(snd)
     IN /\ snd' = r.sc
        /\ rawSent' = rawSent \o r.out
  /\ UNCHANGED <<rcv, wire, sndClosed, toSend, sent, nWrites, received,
                 rdPlen, rdErr>>
  /\ UNCHANGED notCodecVars

NextFlush ==
  \/ BoostEnableSnd
  \/ AppWrite
  \/ FlushClose
  \/ FlushCloseAgain

SpecFlush == InitBoost /\ [][NextFlush]_vars

\* the bytes of s that the read loop of the mode takes for data
Carriers(isASCII, s) == SelectSeq(s, LAMBDA b : ~IsPadding(isASCII, b))

\* C30: a first Close of a connection whose write side is in boost mode and
\* whose accumulator holds r residual bits, 0 < r < 6, writes exactly one
\* carrier byte (and at most one padding byte on each side of it); its 6-bit
\* field is the r residual bits at the top and zeros below, and the
\* accumulator is empty afterwards.  A first Close with no residual bits or
\* with boost write off writes nothing and leaves the connection as it was.
\* Once the connection is closed a further flush writes nothing.
CloseFlush ==
  [][ /\ (~sndClosed /\ sndClosed') =>
           LET r == snd.encBits
               written == Drop(rawSent', Len(rawSent))
               carriers == Carriers(snd.boostASCII, written)
           IN IF snd.boostWrite /\ r > 0
              THEN /\ r < 6
                   /\ Len(carriers) = 1
                   /\ Len(written) <= 3
                   /\ unpackBoostByte(snd.boostASCII, carriers[1])
                        = (snd.encBitBuf % Pow2(r)) * Pow2(6 - r)
                   /\ snd'.encBits = 0
                   /\ snd'.encBitBuf = 0
              ELSE /\ written = <<>>
                   /\ snd' = snd
      /\ sndClosed =>
           /\ rawSent' = rawSent
           /\ snd'.encBits = 0
           /\ flushBoostPadding(snd').out = <<>> ]_vars

\* one byte was written in boost mode, which leaves two residual bits that
\* are not both zero, and Close has written their carrier byte after the
\* carrier byte of the first six bits
CloseFlushWitness ==
  /\ sndClosed
  /\ snd.boostWrite
  /\ Len(sent) = 1
  /\ snd.encBits = 0
  /\ Len(Carriers(snd.boostASCII, rawSent)) = 2
  /\ unpackBoostByte(snd.boostASCII,
                     Carriers(snd.boostASCII, rawSent)[2]) \in {16, 32, 48}

\* ---------------------------------------------------------------------------
\* Conn.Read over a transport that delivers any bytes, in any segmentation,
\* and ends with an error that may come together with the last bytes

\* an unknown 4-tuple of codeword bytes: the second codeword of an odd byte
UnknownCodeword(isASCII) == Codeword(isASCII, 65, 1)

\* what the transport delivers to a reader in legacy mode
RdLegacyStreams(isASCII) ==
  LET pad == PaddingPool(isASCII)[1]
      h == Codeword(isASCII, 72, 0)
      i == Codeword(isASCII, 105, 0)
      x == UnknownCodeword(isASCII)
  IN { h \o i,
       h \o x \o i,
       h \o i \o x,
       x \o h,
       <<pad>> \o h \o <<pad>> \o Take(i, 2) }

\* what the transport delivers to a reader in boost mode
RdBoostStreams(isASCII) ==
  LET pad == PaddingPool(isASCII)[2]
      c(v) == packBoostByte(isASCII, v)
  IN { <<c(18)>>,
       <<c(18), c(7)>>,
       <<c(18), pad, c(7), c(33), c(60)>> }

InitRead ==
  /\ \E m \in BOOLEAN : \E boost \in BOOLEAN : \E e \in {"EOF", "reset"} :
       \E sc \in { IF boost
                   THEN EnableBoost(NewConn(m, 0, 0, FALSE), FALSE, TRUE,
                                    32, 16, 1, 171, m).sc
                   ELSE NewConn(m, 0, 0, FALSE) } :
       \E w \in (IF boost THEN RdBoostStreams(m) ELSE RdLegacyStreams(m)) :
         rd = [sc |-> sc, wire |-> w, end |-> e, failed |-> FALSE,
               in |-> FALSE, cap |-> 0, data |-> <<>>, err |-> "nil",
               got |-> <<>>, missed |-> FALSE]
  /\ CodecIdle
  /\ HsIdle
  /\ CtlIdle
  /\ MxIdle
  /\ BmIdle
  /\ UpIdle
  /\ DlIdle
  /\ MkIdle
  /\ HpIdle
  /\ AdIdle
  /\ AeIdle
  /\ KsIdle
  /\ FbIdle
  /\ BbIdle
  /\ RcIdle
  /\ BwIdle
  /\ DkIdle
  /\ KhIdle
  /\ PpIdle

\* what a call of Read that returns r leaves behind
RdReturn(r) ==
  [rd EXCEPT !.sc = r.sc, !.in = FALSE, !.data = r.data, !.err = r.err,
             !.got = @ \o r.data,
             !.missed = @ \/ r.err = "INVALID_SUDOKU_MAP_MISS"]

\* sc.Read(p) is called with len(p) = cap
RdCall ==
  /\ ~rd.in
  /\ \E cap \in 1..MaxBuf : rd' = [rd EXCEPT !.in = TRUE, !.cap = cap]
  /\ UNCHANGED notRdVars

\* Read / readBoost: data is pending and is returned at once
RdPending ==
  /\ rd.in
  /\ rd.sc.pendingData # <<>>
  /\ rd' = RdReturn(CopyOut(rd.sc, rd.cap))
  /\ UNCHANGED notRdVars

\* One pass of the loop: reader.Read returns the next k bytes, the last of
\* them with or without the error the transport ends with.
RdPass ==
  /\ rd.in
  /\ rd.sc.pendingData = <<>>
  /\ rd.wire # <<>>
  /\ \E k \in 1..Len(rd.wire) :
       \E rErr \in (IF k = Len(rd.wire) THEN {"nil", rd.end} ELSE {"nil"}) :
         LET r == ReadPass(rd.sc, rd.cap, Take(rd.wire, k), rErr)
             after == IF r.ret THEN RdReturn(r) ELSE [rd EXCEPT !.sc = r.sc]
         IN rd' = [after EXCEPT !.wire = Drop(rd.wire, k),
                                !.failed = rErr # "nil"]
  /\ UNCHANGED notRdVars

\* one pass of the loop: the transport has nothing left but its error
RdPassErr ==
  /\ rd.in
  /\ rd.sc.pendingData = <<>>
  /\ rd.wire = <<>>
  /\ LET r == ReadPass(rd.sc, rd.cap, <<>>, rd.end)
     IN rd' = [RdReturn(r) EXCEPT !.failed = TRUE]
  /\ UNCHANGED notRdVars

NextRead == RdCall \/ RdPending \/ RdPass \/ RdPassErr

SpecRead == InitRead /\ [][NextRead]_vars

\* a call of Read returns in this step
RdReturns == rd.in /\ ~rd'.in

\* the step in which the fourth byte of an unknown codeword is accumulated
\* (a known codeword leaves the accumulator empty) is a return of Read with
\* the map miss and no data
MissReturnsError ==
  [][(Len(rd.sc.hintBuf) < 4 /\ Len(rd'.sc.hintBuf) = 4) =>
       /\ RdReturns
       /\ rd'.err = "INVALID_SUDOKU_MAP_MISS"
       /\ rd'.data = <<>>]_vars

\* once a call has returned the map miss no call returns data
NoDataAfterMiss ==
  [][(rd.missed /\ RdReturns) => rd'.data = <<>>]_vars

\* C31: an unknown 4-byte codeword is fatal to the connection.  Read fails
\* with INVALID_SUDOKU_MAP_MISS when the four accumulated codeword bytes
\* have no entry in the decode table, and after Read has returned that
\* error no later Read on the connection returns decoded data.
MapMissIsFatal == MissReturnsError /\ NoDataAfterMiss

\* after the map miss nothing of what the transport delivers later is
\* decoded: what later calls return was decoded before the unknown codeword
NothingDecodedAfterMiss ==
  [][rd.missed => /\ Len(rd'.sc.hintBuf) >= 4
                  /\ Len(rd'.sc.pendingData) <= Len(rd.sc.pendingData)]_vars

\* C32: for a buffer of at least one byte every call of Read that returns,
\* in legacy or in boost mode, returns n >= 1 bytes and a nil error or no
\* byte and an error, never (0, nil) and never more than the buffer holds.
\* Pending bytes are returned before anything else, as many as fit and in
\* order, and the bytes that do not fit stay pending in their order: what
\* has been returned followed by what is pending only ever grows at its end.
ReadReturnContract ==
  [][ /\ RdReturns =>
           LET pending == rd.sc.pendingData
               n == Len(rd'.data)
           IN /\ rd.cap >= 1
              /\ \/ n >= 1 /\ rd'.err = "nil"
                 \/ n = 0 /\ rd'.err # "nil"
              /\ n <= rd.cap
              /\ rd'.got = rd.got \o rd'.data
              /\ pending # <<>> =>
                   /\ rd'.err = "nil"
                   /\ n = Min(rd.cap, Len(pending))
                   /\ rd'.data = Take(pending, n)
                   /\ rd'.sc.pendingData = Drop(pending, n)
                   /\ rd'.wire = rd.wire
              /\ rd'.err = "nil" =>
                   n = Min(rd.cap, n + Len(rd'.sc.pendingData))
      /\ IsPrefix(rd.got \o rd.sc.pendingData,
                  rd'.got \o rd'.sc.pendingData) ]_vars

\* a call with a buffer of one byte has returned the first of two bytes
\* decoded from one chunk, in boost mode; the second is pending
ReadReturnContractWitness ==
  /\ ~rd.in
  /\ rd.sc.boostRead
  /\ rd.cap = 1
  /\ rd.err = "nil"
  /\ Len(rd.data) = 1
  /\ rd.got = rd.data
  /\ Len(rd.sc.pendingData) = 1

\* the errors of the transport
TransportErrors == {"EOF", "reset"}

\* C36: Read, in legacy and in boost mode, never reports a transport error
\* or EOF while decoded bytes are pending: when the transport returns bytes
\* together with an error, the plaintext decoded from those bytes has been
\* returned to the caller before the error is.
DataBeforeTransportError ==
  [][(RdReturns /\ rd'.err \in TransportErrors) =>
       rd'.sc.pendingData = <<>>]_vars

\* an error that the transport returns with no bytes is reported with
\* nothing pending
ErrorAloneFindsNothingPending ==
  [][(RdReturns /\ rd'.err \in TransportErrors /\ rd.wire = <<>>) =>
       rd'.sc.pendingData = <<>>]_vars

\* ---------------------------------------------------------------------------
\* StopRecording and GetBufferedAndRecorded concurrent with Read on a
\* connection opened in recording mode

\* what the transport delivers: two codewords
RcStreams(isASCII) ==
  { Codeword(isASCII, 72, 0), Codeword(isASCII, 72, 0) \o Codeword(isASCII, 105, 0) }

InitRecording ==
  /\ \E m \in BOOLEAN : \E w \in RcStreams(m) :
       rc = [sc |-> NewConn(m, 0, 0, TRUE), mu |-> "none", wire |-> w,
             pulled |-> <<>>, rdPc |-> "loop", chunk |-> <<>>,
             rec |-> FALSE, stPc |-> "start", gtPc |-> "start",
             gtOut |-> <<>>, writes |-> 0, wroteNil |-> FALSE]
  /\ CodecIdle
  /\ HsIdle
  /\ CtlIdle
  /\ MxIdle
  /\ BmIdle
  /\ UpIdle
  /\ DlIdle
  /\ MkIdle
  /\ HpIdle
  /\ AdIdle
  /\ AeIdle
  /\ KsIdle
  /\ FbIdle
  /\ BbIdle
  /\ RdIdle
  /\ BwIdle
  /\ DkIdle
  /\ KhIdle
  /\ PpIdle

\* Read: nr, rErr := sc.reader.Read(sc.rawBuf) returns the next k bytes
RcPull ==
  /\ rc.rdPc = "loop"
  /\ rc.wire # <<>>
  /\ \E k \in 1..Len(rc.wire) :
       rc' = [rc EXCEPT !.chunk = Take(rc.wire, k),
                        !.wire = Drop(rc.wire, k),
                        !.pulled = @ \o Take(rc.wire, k),
                        !.rdPc = "lock"]
  /\ UNCHANGED notRcVars

\* (mutant) Read goes on without the lock
RcReadNoLock ==
  /\ rc.rdPc = "lock"
  /\ rc' = [rc EXCEPT !.rdPc = "check"]
  /\ UNCHANGED notRcVars

\* Read: sc.recordLock.Lock()
RcReadLock ==
  /\ rc.rdPc = "lock"
  /\ rc.mu = "none"
  /\ rc' = [rc EXCEPT !.mu = "read", !.rdPc = "check"]
  /\ UNCHANGED notRcVars

\* Read: if sc.recording
RcReadCheck ==
  /\ rc.rdPc = "check"
  /\ rc' = [rc EXCEPT !.rec = rc.sc.recording, !.rdPc = "write"]
  /\ UNCHANGED notRcVars

\* Read: sc.recorder.Write(chunk), if recording was set
RcReadWrite ==
  /\ rc.rdPc = "write"
  /\ rc' = [rc EXCEPT
              !.sc = IF rc.rec /\ ~rc.sc.recorderNil
                     THEN [@ EXCEPT !.recorder = @ \o rc.chunk] ELSE @,
              !.writes = IF rc.rec THEN @ + 1 ELSE @,
              !.wroteNil = @ \/ (rc.rec /\ rc.sc.recorderNil),
              !.rdPc = "unlock"]
  /\ UNCHANGED notRcVars

\* Read: sc.recordLock.Unlock(), then the loop over the chunk; the caller
\* takes what was decoded and calls Read again
RcReadUnlock ==
  /\ rc.rdPc = "unlock"
  /\ LET d == DecodeLegacy(rc.sc, rc.chunk, 1)
     IN rc' = [rc EXCEPT
                 !.sc = CopyOut(d.sc, Len(d.sc.pendingData)).sc,
                 !.mu = IF @ = "read" THEN "none" ELSE @,
                 !.chunk = <<>>,
                 !.rdPc = IF d.miss THEN "done" ELSE "loop"]
  /\ UNCHANGED notRcVars

\* StopRecording: sc.recordLock.Lock()
RcStopLock ==
  /\ rc.stPc = "start"
  /\ rc.mu = "none"
  /\ rc' = [rc EXCEPT !.mu = "stop", !.stPc = "locked"]
  /\ UNCHANGED notRcVars

\* StopRecording: sc.recording = false
RcStopFlag ==
  /\ rc.stPc = "locked"
  /\ rc' = [rc EXCEPT !.sc.recording = FALSE, !.stPc = "flagged"]
  /\ UNCHANGED notRcVars

\* StopRecording: sc.recorder = nil
RcStopRelease ==
  /\ rc.stPc = "flagged"
  /\ rc' = [rc EXCEPT !.sc = StopRecording(@), !.stPc = "released"]
  /\ UNCHANGED notRcVars

\* StopRecording: sc.recordLock.Unlock() and return
RcStopUnlock ==
  /\ rc.stPc = "released"
  /\ rc' = [rc EXCEPT !.mu = "none", !.stPc = "done"]
  /\ UNCHANGED notRcVars

\* GetBufferedAndRecorded: sc.recordLock.Lock()
RcGetLock ==
  /\ rc.gtPc = "start"
  /\ rc.mu = "none"
  /\ rc' = [rc EXCEPT !.mu = "get", !.gtPc = "locked"]
  /\ UNCHANGED notRcVars

\* GetBufferedAndRecorded: the body and the deferred Unlock
RcGetReturn ==
  /\ rc.gtPc = "locked"
  /\ rc' = [rc EXCEPT !.gtOut = GetBufferedAndRecorded(rc.sc),
                      !.mu = "none", !.gtPc = "done"]
  /\ UNCHANGED notRcVars

NextRecording ==
  \/ RcPull
  \/ RcReadLock
  \/ RcReadCheck
  \/ RcReadWrite
  \/ RcReadUnlock
  \/ RcStopLock
  \/ RcStopFlag
  \/ RcStopRelease
  \/ RcStopUnlock
  \/ RcGetLock
  \/ RcGetReturn

SpecRecording == InitRecording /\ [][NextRecording]_vars

\* Read makes no call of Write on a released recorder
NoWriteToReleasedRecorder == ~rc.wroteNil

\* when StopRecording takes the lock the recorder holds every chunk Read
\* has pulled from the transport, in arrival order
StopFindsAllPulled ==
  [][(rc.stPc = "start" /\ rc'.stPc = "locked") =>
       rc.sc.recorder = rc.pulled]_vars

\* nothing is recorded after StopRecording has returned
NothingRecordedAfterStop ==
  [][rc.stPc = "done" => /\ rc'.writes = rc.writes
                         /\ rc'.sc.recorder = <<>>]_vars

\* C33: recording is safe against a concurrent stop.  In every interleaving
\* of StopRecording, GetBufferedAndRecorded and Read on a connection opened
\* in recording mode Read never writes to a released recorder, every raw
\* chunk Read pulled from the transport before StopRecording took the lock
\* is in the recorder in arrival order, and no byte is recorded after
\* StopRecording has returned.
RecordingSafeAgainstStop ==
  /\ []NoWriteToReleasedRecorder
  /\ StopFindsAllPulled
  /\ NothingRecordedAfterStop

\* every chunk whose recordLock section Read has left is in the recorder
\* for as long as StopRecording has not released it
RecordedUpToLastSection ==
  (~rc.sc.recorderNil /\ rc.rdPc \in {"loop", "lock", "done"}) =>
    rc.pulled = rc.sc.recorder \o rc.chunk

\* what GetBufferedAndRecorded returned is what had been pulled so far,
\* without the chunk Read held at that moment, if it held one
GetReturnsRecorded ==
  [][(rc.gtPc = "locked" /\ rc'.gtPc = "done" /\ ~rc.sc.recorderNil) =>
       rc.pulled = rc'.gtOut \o rc.chunk]_vars

\* C33 (amended): in every interleaving Read never writes to a released
\* recorder and nothing is recorded after StopRecording has returned; the
\* recorder holds, in arrival order, every chunk whose locked section Read
\* has completed, so that when StopRecording or GetBufferedAndRecorded takes
\* the lock it lacks at most the one chunk that Read has pulled from the
\* transport and not yet recorded.
RecordingSafeUpToSection ==
  /\ []NoWriteToReleasedRecorder
  /\ []RecordedUpToLastSection
  /\ GetReturnsRecorded
  /\ NothingRecordedAfterStop

\* StopRecording holds the lock while Read waits for it with a chunk it has
\* pulled, after an earlier chunk was recorded and handed out by
\* GetBufferedAndRecorded
RecordingSafeUpToSectionWitness ==
  /\ rc.stPc = "locked"
  /\ rc.rdPc = "lock"
  /\ rc.chunk # <<>>
  /\ rc.sc.recorder # <<>>
  /\ rc.gtPc = "done"
  /\ rc.gtOut = rc.sc.recorder
  /\ rc.pulled = rc.sc.recorder \o rc.chunk

\* ---------------------------------------------------------------------------
\* Write concurrent with Write and with Close on a connection whose write
\* side is in boost mode

\* the writing threads; thread 0 is no thread
BwThreads == {1, 2}

\* the plaintext of each thread; the second thread may have nothing to write
BwPlain == { <<<<72>>, <<105>>>>, <<<<72, 33>>, <<>>>>, <<<<58>>, <<31, 113>>>> }

\* the connection of the reading side before it has read anything
BwReceiver(isASCII) ==
  EnableBoost(NewConn(isASCII, 0, 0, FALSE), FALSE, TRUE, 32, 16,
              ClientAESKey, 171, isASCII).sc

InitBoostThreads ==
  /\ \E m \in BOOLEAN : \E r \in {0, 30} : \E ps \in BwPlain :
       bw = [sc |-> EnableBoost(NewConn(m, r, 0, FALSE), TRUE, FALSE, 32, 16,
                                ClientAESKey, 171, m).sc,
             mu |-> 0, wire |-> <<>>, closed |-> FALSE,
             th |-> [t \in BwThreads |->
                       [pc |-> "start", p |-> ps[t], encBuf |-> <<>>,
                        out |-> <<>>]],
             cl |-> "start", order |-> <<>>]
  /\ CodecIdle
  /\ HsIdle
  /\ CtlIdle
  /\ MxIdle
  /\ BmIdle
  /\ UpIdle
  /\ DlIdle
  /\ MkIdle
  /\ HpIdle
  /\ AdIdle
  /\ AeIdle
  /\ KsIdle
  /\ FbIdle
  /\ BbIdle
  /\ RdIdle
  /\ RcIdle
  /\ DkIdle
  /\ KhIdle
  /\ PpIdle

\* Write(p) with len(p) = 0 returns at once
BwEmpty(t) ==
  /\ bw.th[t].pc = "start"
  /\ bw.th[t].p = <<>>
  /\ bw' = [bw EXCEPT !.th[t].pc = "done"]
  /\ UNCHANGED notBwVars

\* writeBoost: sc.boostEnc.XORKeyStream(encBuf, p)
BwXor(t) ==
  /\ bw.th[t].pc = "start"
  /\ bw.th[t].p # <<>>
  /\ LET x == XORKeyStream(bw.sc.boostEnc, bw.th[t].p)
     IN bw' = [bw EXCEPT !.sc.boostEnc = x.st,
                         !.th[t].encBuf = x.dst,
                         !.th[t].pc = "lock",
                         !.order = @ \o bw.th[t].p]
  /\ UNCHANGED notBwVars

\* writeBoost: sc.boostMu.Lock()
BwLock(t) ==
  /\ bw.th[t].pc = "lock"
  /\ bw.mu = 0
  /\ bw' = [bw EXCEPT !.mu = t, !.th[t].pc = "loop"]
  /\ UNCHANGED notBwVars

\* writeBoost: the loop over encBuf and sc.boostMu.Unlock()
BwLoop(t) ==
  /\ bw.th[t].pc = "loop"
  /\ LET w == BoostWriteBytes([rng |-> bw.sc.rng, out |-> <<>>,
                               encBits |-> bw.sc.encBits,
                               encBitBuf |-> bw.sc.encBitBuf],
                              bw.sc, bw.th[t].encBuf, 1)
     IN bw' = [bw EXCEPT !.sc.rng = w.rng,
                         !.sc.encBits = w.encBits,
                         !.sc.encBitBuf = w.encBitBuf,
                         !.th[t].out = w.out,
                         !.mu = 0,
                         !.th[t].pc = "write"]
  /\ UNCHANGED notBwVars

\* writeBoost: the trailing padding coin and sc.Conn.Write(out); a closed
\* transport takes nothing
BwConnWrite(t) ==
  /\ bw.th[t].pc = "write"
  /\ LET c == PadCoin([rng |-> bw.sc.rng, out |-> bw.th[t].out],
                      bw.sc.isASCII, bw.sc.paddingRate)
     IN bw' = [bw EXCEPT !.sc.rng = c.rng,
                         !.wire = IF bw.closed THEN @ ELSE @ \o c.out,
                         !.th[t].pc = "done"]
  /\ UNCHANGED notBwVars

\* Close: sc.boostWrite is set; flushBoostPadding: sc.boostMu.Lock()
BwCloseLock ==
  /\ bw.cl = "start"
  /\ bw.mu = 0
  /\ bw' = [bw EXCEPT !.mu = 3, !.cl = "flush"]
  /\ UNCHANGED notBwVars

\* flushBoostPadding: the body, with sc.Conn.Write(out), and the deferred
\* Unlock
BwCloseFlush ==
  /\ bw.cl = "flush"
  /\ LET r == flushBoostPadding(bw.sc)
     IN bw' = [bw EXCEPT !.sc = r.sc, !.wire = @ \o r.out, !.mu = 0,
                         !.cl = "close"]
  /\ UNCHANGED notBwVars

\* Close: sc.Conn.Close()
BwCloseConn ==
  /\ bw.cl = "close"
  /\ bw' = [bw EXCEPT !.closed = TRUE, !.cl = "done"]
  /\ UNCHANGED notBwVars

NextBoostThreads ==
  \/ \E t \in BwThreads : BwEmpty(t)
  \/ \E t \in BwThreads : BwXor(t)
  \/ \E t \in BwThreads : BwLock(t)
  \/ \E t \in BwThreads : BwLoop(t)
  \/ \E t \in BwThreads : BwConnWrite(t)
  \/ BwCloseLock
  \/ BwCloseFlush
  \/ BwCloseConn

SpecBoostThreads == InitBoostThreads /\ [][NextBoostThreads]_vars

\* what the receiver decodes from the bytes the transport has taken
BwDecoded ==
  DecodeBoost(BwReceiver(bw.sc.isASCII), bw.wire, 1).sc.pendingData

\* C34: the boost mutex makes writing and flushing safe together.  In every
\* interleaving of a boost-mode Write with a concurrent Close or with
\* another boost-mode Write the carrier bytes reach the transport in the
\* order in which their bits were taken from the keystream and the encode
\* accumulator, so that the receiver decodes a prefix of the written
\* plaintext: of the plaintexts in the order in which the keystream was
\* applied to them, or in the other order of the two calls.
BoostWriteOrder ==
  \/ IsPrefix(BwDecoded, bw.order)
  \/ IsPrefix(BwDecoded, bw.th[1].p \o bw.th[2].p)
  \/ IsPrefix(BwDecoded, bw.th[2].p \o bw.th[1].p)

\* the same for one Write and a concurrent Close
BoostWriteThenCloseOrder ==
  bw.th[2].p = <<>> => IsPrefix(BwDecoded, bw.th[1].p)

\* the accumulator is never changed but by the holder of boostMu, and holds
\* fewer than six bits whenever the mutex is free
BoostAccumulatorGuarded ==
  bw.mu = 0 => bw.sc.encBits \in {0, 2, 4}

\* ---------------------------------------------------------------------------
\* SendControl from the read path of the client while its writer holds the
\* write mutex, over a transport of bounded buffering

\* bytes the transport holds in each direction
DkCap == 2

\* bytes of a control frame, as many as the transport holds and one more
DkFrameLen == 3

\* bytes one call of Write hands over, at most
DkWriteLen == 3

\* calls of Write of each writer thread
MaxDkWrites == 2

InitDeadlock ==
  /\ dk = [up |-> <<>>, down |-> <<>>, cMu |-> "none", sMu |-> "none",
           cw |-> [pc |-> "idle", left |-> 0, calls |-> 0],
           cr |-> [pc |-> "read", left |-> 0],
           sr |-> [pc |-> "read", left |-> 0, got |-> 0],
           sw |-> [pc |-> "idle", left |-> 0, calls |-> 0],
           requested |-> FALSE]
  /\ CodecIdle
  /\ HsIdle
  /\ CtlIdle
  /\ MxIdle
  /\ BmIdle
  /\ UpIdle
  /\ DlIdle
  /\ MkIdle
  /\ HpIdle
  /\ AdIdle
  /\ AeIdle
  /\ KsIdle
  /\ FbIdle
  /\ BbIdle
  /\ RdIdle
  /\ RcIdle
  /\ BwIdle
  /\ KhIdle
  /\ PpIdle

\* the client's writer thread calls ControlConn.Write(p)
DkCliWriteCall ==
  /\ dk.cw.pc = "idle"
  /\ dk.cw.calls < MaxDkWrites
  /\ \E n \in 1..DkWriteLen :
       dk' = [dk EXCEPT !.cw = [pc |-> "lock", left |-> n,
                                calls |-> dk.cw.calls + 1]]
  /\ UNCHANGED notDkVars

\* ControlConn.Write: c.wMu.Lock()
DkCliWriteLock ==
  /\ dk.cw.pc = "lock"
  /\ dk.cMu = "none"
  /\ dk' = [dk EXCEPT !.cMu = "writer", !.cw.pc = "write"]
  /\ UNCHANGED notDkVars

\* ControlConn.Write: c.Conn.Write(p) hands over a byte when the transport
\* has room, and blocks when it has none
DkCliWriteSome ==
  /\ dk.cw.pc = "write"
  /\ dk.cw.left > 0
  /\ Len(dk.up) < DkCap
  /\ dk' = [dk EXCEPT !.up = Append(@, 0), !.cw.left = @ - 1]
  /\ UNCHANGED notDkVars

\* (mutant) Write returns without the deferred Unlock
DkCliWriteReturnKeepsLock ==
  /\ dk.cw.pc = "write"
  /\ dk.cw.left = 0
  /\ dk' = [dk EXCEPT !.cw.pc = "idle"]
  /\ UNCHANGED notDkVars

\* ControlConn.Write: c.Conn.Write has returned, the deferred Unlock
DkCliWriteUnlock ==
  /\ dk.cw.pc = "write"
  /\ dk.cw.left = 0
  /\ dk' = [dk EXCEPT !.cMu = "none", !.cw.pc = "idle"]
  /\ UNCHANGED notDkVars

\* The client's reader thread in ControlConn.Read: c.Conn.Read returns k
\* bytes; appendData calls dataCb for the data among them, and dataCb,
\* if the monitor triggers and no request was made, enters SendControl.
DkCliRead ==
  /\ dk.cr.pc = "read"
  /\ dk.down # <<>>
  /\ \E k \in 1..Len(dk.down) : \E trigger \in BOOLEAN :
       LET data == \E j \in 1..k : dk.down[j] = 0
       IN dk' = [dk EXCEPT
                   !.down = Drop(@, k),
                   !.cr = IF data /\ ~dk.requested /\ trigger
                          THEN [pc |-> "lock", left |-> DkFrameLen]
                          ELSE @]
  /\ UNCHANGED notDkVars

\* SendControl: c.wMu.Lock()
DkCliSendLock ==
  /\ dk.cr.pc = "lock"
  /\ dk.cMu = "none"
  /\ dk' = [dk EXCEPT !.cMu = "reader", !.cr.pc = "send"]
  /\ UNCHANGED notDkVars

\* SendControl: c.Conn.Write(header)
DkCliSendSome ==
  /\ dk.cr.pc = "send"
  /\ dk.cr.left > 0
  /\ Len(dk.up) < DkCap
  /\ dk' = [dk EXCEPT !.up = Append(@, 1), !.cr.left = @ - 1]
  /\ UNCHANGED notDkVars

\* SendControl returns nil: the deferred Unlock, requested = true, and
\* Read goes on
DkCliSendUnlock ==
  /\ dk.cr.pc = "send"
  /\ dk.cr.left = 0
  /\ dk' = [dk EXCEPT !.cMu = "none", !.requested = TRUE,
                      !.cr.pc = "read"]
  /\ UNCHANGED notDkVars

\* The server's reader thread takes k bytes off the transport; when it has
\* a whole BOOST_REQUEST frame its handler answers with BOOST_ACK.
DkSrvRead ==
  /\ dk.sr.pc = "read"
  /\ dk.up # <<>>
  /\ \E k \in 1..Len(dk.up) :
       LET got == dk.sr.got + Cardinality({ j \in 1..k : dk.up[j] = 1 })
       IN dk' = [dk EXCEPT
                   !.up = Drop(@, k),
                   !.sr = IF got >= DkFrameLen
                          THEN [pc |-> "lock", left |-> DkFrameLen,
                                got |-> got - DkFrameLen]
                          ELSE [@ EXCEPT !.got = got]]
  /\ UNCHANGED notDkVars

\* the server's SendControl(BOOST_ACK): c.wMu.Lock()
DkSrvAckLock ==
  /\ dk.sr.pc = "lock"
  /\ dk.sMu = "none"
  /\ dk' = [dk EXCEPT !.sMu = "reader", !.sr.pc = "send"]
  /\ UNCHANGED notDkVars

\* the server's SendControl: c.Conn.Write(header)
DkSrvAckSome ==
  /\ dk.sr.pc = "send"
  /\ dk.sr.left > 0
  /\ Len(dk.down) < DkCap
  /\ dk' = [dk EXCEPT !.down = Append(@, 1), !.sr.left = @ - 1]
  /\ UNCHANGED notDkVars

\* the server's SendControl returns
DkSrvAckUnlock ==
  /\ dk.sr.pc = "send"
  /\ dk.sr.left = 0
  /\ dk' = [dk EXCEPT !.sMu = "none", !.sr.pc = "read"]
  /\ UNCHANGED notDkVars

\* the server's writer thread calls ControlConn.Write(p)
DkSrvWriteCall ==
  /\ dk.sw.pc = "idle"
  /\ dk.sw.calls < MaxDkWrites
  /\ \E n \in 1..DkWriteLen :
       dk' = [dk EXCEPT !.sw = [pc |-> "lock", left |-> n,
                                calls |-> dk.sw.calls + 1]]
  /\ UNCHANGED notDkVars

\* the server's ControlConn.Write: c.wMu.Lock()
DkSrvWriteLock ==
  /\ dk.sw.pc = "lock"
  /\ dk.sMu = "none"
  /\ dk' = [dk EXCEPT !.sMu = "writer", !.sw.pc = "write"]
  /\ UNCHANGED notDkVars

\* the server's ControlConn.Write: c.Conn.Write(p)
DkSrvWriteSome ==
  /\ dk.sw.pc = "write"
  /\ dk.sw.left > 0
  /\ Len(dk.down) < DkCap
  /\ dk' = [dk EXCEPT !.down = Append(@, 0), !.sw.left = @ - 1]
  /\ UNCHANGED notDkVars

\* the server's ControlConn.Write returns
DkSrvWriteUnlock ==
  /\ dk.sw.pc = "write"
  /\ dk.sw.left = 0
  /\ dk' = [dk EXCEPT !.sMu = "none", !.sw.pc = "idle"]
  /\ UNCHANGED notDkVars

NextDeadlock ==
  \/ DkCliWriteCall
  \/ DkCliWriteLock
  \/ DkCliWriteSome
  \/ DkCliWriteUnlock
  \/ DkCliRead
  \/ DkCliSendLock
  \/ DkCliSendSome
  \/ DkCliSendUnlock
  \/ DkSrvRead
  \/ DkSrvAckLock
  \/ DkSrvAckSome
  \/ DkSrvAckUnlock
  \/ DkSrvWriteCall
  \/ DkSrvWriteLock
  \/ DkSrvWriteSome
  \/ DkSrvWriteUnlock

SpecDeadlock == InitDeadlock /\ [][NextDeadlock]_vars

\* C35: sending the boost request from the read path cannot block the
\* connection for ever.  Whenever the client's Read waits in SendControl
\* for the write mutex, the mutex is free, or the writer that holds it can
\* hand over a byte or return, or the server's reader can take bytes off
\* the transport, which makes room for the writer: some thread that the
\* waiting Read depends on can make progress.
ReadNeverStuckOnMutex ==
  dk.cr.pc = "lock" =>
    \/ ENABLED DkCliSendLock
    \/ ENABLED DkCliWriteSome
    \/ ENABLED DkCliWriteUnlock
    \/ ENABLED DkSrvRead

\* the client's Read waits for the mutex while the writer that holds it is
\* blocked on a full transport, the server's writer is blocked on a full
\* transport as well, and only the server's reader can go on
ReadNeverStuckOnMutexWitness ==
  /\ dk.cr.pc = "lock"
  /\ dk.cMu = "writer"
  /\ dk.cw.left > 0
  /\ Len(dk.up) = DkCap
  /\ dk.sw.pc = "write"
  /\ dk.sw.left > 0
  /\ Len(dk.down) = DkCap
  /\ dk.sr.pc = "read"

\* C39: In boost mode, after EnableBoost, writeBoost and flushBoostPadding
\* the encode accumulator holds 0, 2 or 4 bits, and after readBoost the
\* decode accumulator holds 0, 2, 4 or 6 bits; the buffers hold no bit
\* above these, and with the 8 bits of the next byte written or the 6 bits
\* of the next symbol read neither accumulator holds more than 13 bits.
AccumulatorBounds ==
  /\ snd.encBits \in {0, 2, 4}
  /\ snd.encBitBuf \in 0..(Pow2(snd.encBits) - 1)
  /\ snd.encBits + 8 <= 13
  /\ Shl(snd.encBitBuf, 8) + 255 < Pow2(13)
  /\ rcv.decBits \in {0, 2, 4, 6}
  /\ rcv.decBitBuf \in 0..(Pow2(rcv.decBits) - 1)
  /\ rcv.decBits + 6 <= 13
  /\ Shl(rcv.decBitBuf, 6) + 63 < Pow2(13)

\* The writer holds four bits that are not all zero after a write, and
\* the reader holds the six bits of one symbol after a read.
AccumulatorBoundsWitness ==
  /\ snd.boostWrite
  /\ nWrites > 0
  /\ snd.encBits = 4
  /\ snd.encBitBuf > 0
  /\ rcv.boostRead
  /\ rcv.decBits = 6
  /\ rcv.decBitBuf > 0

(***************************************************************************)
(* ServerHandshake (part_005 256-287) on two payloads that differ in the   *)
(* key-hash field only.                                                    *)
(***************************************************************************)
\* key-hash fields: sha256(key)[:8] of the server's key and of two others
KhHashes ==
  { KeyHash, <<1, 2, 3, 4, 5, 6, 7, 8>>, <<11, 22, 33, 44, 55, 66, 77, 0>> }

\* the numbers of payload bytes the clients write before they stop
KhSent == {12, handshakeLen}

\* the raw bytes one read of rawConn gives, unless it gives all there are
KhChunk == 24

\* (mutant) the check of the payload compares the key-hash field too
checkHandshakeWithKeyHash(run, r) ==
  LET got == run.got \o r.data
  IN IF r.err # "nil"
     THEN [run EXCEPT !.sc = AEADConnClose(r.sc), !.got = got,
                      !.pc = "read handshake failed"]
     ELSE IF Len(got) < handshakeLen
     THEN [run EXCEPT !.sc = r.sc, !.got = got]
     ELSE IF SkewTooLarge(Take(got, 8)) \/ SubSeq(got, 9, 16) # KeyHash
     THEN [run EXCEPT !.sc = AEADConnClose(r.sc), !.got = got,
                      !.pc = "timestamp"]
     ELSE [run EXCEPT !.sc = StopRecording(r.sc), !.got = got,
                      !.pc = "address"]

\* ServerHandshake after a Read of io.ReadFull(cConn, handshakeBuf) gave r:
\* the read fails or goes on; the complete payload passes if the skew of
\* its first eight bytes is at most 60 seconds
checkHandshake(run, r) ==
  LET got == run.got \o r.data
  IN IF r.err # "nil"
     THEN [run EXCEPT !.sc = AEADConnClose(r.sc), !.got = got,
                      !.pc = "read handshake failed"]
     ELSE IF Len(got) < handshakeLen
     THEN [run EXCEPT !.sc = r.sc, !.got = got]
     ELSE IF SkewTooLarge(Take(got, 8))
     THEN [run EXCEPT !.sc = AEADConnClose(r.sc), !.got = got,
                      !.pc = "timestamp"]
     ELSE [run EXCEPT !.sc = StopRecording(r.sc), !.got = got,
                      !.pc = "address"]

\* two clients have written the first bytes of their payloads, which carry
\* the same timestamp and different key hashes, through tables of the
\* same mode and the AEAD method "none"; the server has wrapped each
\* connection and starts io.ReadFull
InitKeyHash ==
  /\ \E m \in BOOLEAN : \E ts \in TsFields : \E n \in KhSent :
     \E h1 \in KhHashes : \E h2 \in KhHashes \ {h1} :
       kh = [isASCII |-> m, ts |-> ts,
             run |-> [i \in 1..2 |->
                        [sc |-> NewConn(m, 0, 0, TRUE),
                         wire |-> ConnWrite(NewConn(m, 0, 0, FALSE),
                                            Take(ts \o (IF i = 1 THEN h1
                                                        ELSE h2), n)).out,
                         hash |-> IF i = 1 THEN h1 ELSE h2,
                         got |-> <<>>,
                         pc |-> "handshake"]]]
  /\ CodecIdle
  /\ HsIdle
  /\ CtlIdle
  /\ MxIdle
  /\ BmIdle
  /\ UpIdle
  /\ DlIdle
  /\ MkIdle
  /\ HpIdle
  /\ AdIdle
  /\ AeIdle
  /\ KsIdle
  /\ FbIdle
  /\ BbIdle
  /\ RdIdle
  /\ RcIdle
  /\ BwIdle
  /\ DkIdle
  /\ PpIdle

\* sConn.Read of run i, one pass of its loop: n bytes arrive.  No bytes are
\* pending when io.ReadFull calls Read: each call asks for all the bytes
\* the payload still lacks, and the clients write no more than the payload.
KhReadWire(i) ==
  /\ kh.run[i].pc = "handshake"
  /\ kh.run[i].sc.pendingData = <<>>
  /\ kh.run[i].wire # <<>>
  /\ \E n \in {Min(KhChunk, Len(kh.run[i].wire)), Len(kh.run[i].wire)} :
       kh' = [kh EXCEPT !.run[i] =
                [checkHandshake(@, ReadPass(@.sc, handshakeLen - Len(@.got),
                                            Take(@.wire, n), "nil"))
                   EXCEPT !.wire = Drop(@, n)]]
  /\ UNCHANGED notKhVars

\* sConn.Read of run i, one pass of its loop: the client has stopped and
\* the read of rawConn fails
KhReadErr(i) ==
  /\ kh.run[i].pc = "handshake"
  /\ kh.run[i].sc.pendingData = <<>>
  /\ kh.run[i].wire = <<>>
  /\ kh' = [kh EXCEPT !.run[i] =
              checkHandshake(@, ReadPass(@.sc, handshakeLen - Len(@.got),
                                         <<>>, "EOF"))]
  /\ UNCHANGED notKhVars

NextKeyHash ==
  \/ \E i \in 1..2 : KhReadWire(i)
  \/ \E i \in 1..2 : KhReadErr(i)

SpecKeyHash == InitKeyHash /\ [][NextKeyHash]_vars

MaxPipeChunks == 2

\* the goroutine that copies from b to a, and pipeConn itself, which copies
\* from a to b
PpThreads == {"g", "m"}

\* pipeConn(a, b) has started its goroutine; both are in copyOneWay
InitPipe ==
  /\ pp = [pc |-> [t \in PpThreads |-> "copy"], done |-> 0, mu |-> "none",
           closedA |-> 0, closedB |-> 0, runs |-> 0,
           moved |-> [t \in PpThreads |-> 0], ended |-> <<>>]
  /\ CodecIdle
  /\ HsIdle
  /\ CtlIdle
  /\ MxIdle
  /\ BmIdle
  /\ UpIdle
  /\ DlIdle
  /\ MkIdle
  /\ HpIdle
  /\ AdIdle
  /\ AeIdle
  /\ KsIdle
  /\ FbIdle
  /\ BbIdle
  /\ RdIdle
  /\ RcIdle
  /\ BwIdle
  /\ DkIdle
  /\ KhIdle

\* io.CopyBuffer of thread t, one turn of its loop: a Read of the source
\* and a Write to the destination, which need both connections open
PpCopyMove(t) ==
  /\ pp.pc[t] = "copy"
  /\ pp.closedA = 0
  /\ pp.closedB = 0
  /\ pp.moved[t] < MaxPipeChunks
  /\ pp' = [pp EXCEPT !.moved[t] = @ + 1]
  /\ UNCHANGED notPpVars

\* io.CopyBuffer of thread t returns: the source is at its end, or a Read or
\* Write failed (as they do on a closed connection); copyOneWay returns
PpCopyEnd(t) ==
  /\ pp.pc[t] = "copy"
  /\ pp' = [pp EXCEPT !.pc[t] = "do",
                      !.ended = Append(@, [t |-> t,
                                           closed |-> pp.closedA + pp.closedB])]
  /\ UNCHANGED notPpVars

\* once.Do(closeBoth): the test of done before the lock
PpOnceDo(t) ==
  /\ pp.pc[t] = "do"
  /\ pp' = [pp EXCEPT !.pc[t] = IF pp.done = 0 THEN "lock" ELSE "out"]
  /\ UNCHANGED notPpVars

\* (mutant) once.Do without the test of done under the lock
PpOnceLockNoCheck(t) ==
  /\ pp.pc[t] = "lock"
  /\ pp.mu = "none"
  /\ pp' = [pp EXCEPT !.mu = t, !.pc[t] = "closeA", !.runs = @ + 1]
  /\ UNCHANGED notPpVars

\* once.Do(closeBoth): the lock, and the test of done under it
PpOnceLock(t) ==
  /\ pp.pc[t] = "lock"
  /\ pp.mu = "none"
  /\ pp' = IF pp.done = 0
           THEN [pp EXCEPT !.mu = t, !.pc[t] = "closeA", !.runs = @ + 1]
           ELSE [pp EXCEPT !.mu = t, !.pc[t] = "unlock"]
  /\ UNCHANGED notPpVars

\* closeBoth: a.Close()
PpCloseA(t) ==
  /\ pp.pc[t] = "closeA"
  /\ pp' = [pp EXCEPT !.closedA = @ + 1, !.pc[t] = "closeB"]
  /\ UNCHANGED notPpVars

\* closeBoth: b.Close()
PpCloseB(t) ==
  /\ pp.pc[t] = "closeB"
  /\ pp' = [pp EXCEPT !.closedB = @ + 1, !.pc[t] = "unlock"]
  /\ UNCHANGED notPpVars

\* once.Do(closeBoth) returns: done is set and the lock released; the
\* goroutine ends, pipeConn returns
PpOnceUnlock(t) ==
  /\ pp.pc[t] = "unlock"
  /\ pp' = [pp EXCEPT !.done = 1, !.mu = "none", !.pc[t] = "out"]
  /\ UNCHANGED notPpVars

NextPipe ==
  \/ \E t \in PpThreads : PpCopyMove(t)
  \/ \E t \in PpThreads : PpCopyEnd(t)
  \/ \E t \in PpThreads : PpOnceDo(t)
  \/ \E t \in PpThreads : PpOnceLock(t)
  \/ \E t \in PpThreads : PpCloseA(t)
  \/ \E t \in PpThreads : PpCloseB(t)
  \/ \E t \in PpThreads : PpOnceUnlock(t)

SpecPipe == InitPipe /\ [][NextPipe]_vars

\* both connections have been closed
PpBothClosed == pp.closedA = 1 /\ pp.closedB = 1

\* C40: pipeConn closes both connections exactly once.  closeBoth runs at
\* most once and closes a and b once each; once a copy direction has ended,
\* both connections are closed or a thread is on its way to close them; with
\* both closed a direction that is still copying moves nothing more and
\* ends; and once.Do has returned, in the goroutine and in pipeConn, only
\* with both connections closed by the one run of closeBoth.
PipeClosesOnce ==
  /\ pp.runs <= 1
  /\ pp.closedA <= 1
  /\ pp.closedB <= 1
  /\ (pp.ended # <<>> /\ ~PpBothClosed) =>
       \E t \in PpThreads :
         ENABLED (PpOnceDo(t) \/ PpOnceLock(t) \/ PpCloseA(t) \/ PpCloseB(t))
  /\ \A t \in PpThreads :
       (pp.pc[t] = "copy" /\ PpBothClosed) =>
         (ENABLED PpCopyEnd(t)) /\ ~(ENABLED PpCopyMove(t))
  /\ \A t \in PpThreads : pp.pc[t] = "out" => (PpBothClosed /\ pp.runs = 1)

\* Both directions ended before either connection was closed, the
\* goroutine's first; pipeConn has returned after the one run of closeBoth.
PipeClosesOnceWitness ==
  /\ pp.pc["m"] = "out"
  /\ Len(pp.ended) = 2
  /\ pp.ended[1].t = "g"
  /\ pp.ended[2].closed = 0
  /\ pp.runs = 1
  /\ PpBothClosed

====
